---- MODULE Spec2Model ----
(***************************************************************************)
(* Model of rednote-pic2md: the filename codec and series resolver         *)
(* (file_parser.py), the OCR providers and their throttle                  *)
(* (ocr_service.py), the worker pipeline (main_window.py, OcrWorker.run)   *)
(* and the text cleaner (markdown_processor.py).                           *)
(*                                                                         *)
(* Text is modelled as a sequence of characters.  A character is a string: *)
(* ASCII characters stand for themselves, "\n" is the newline, and a       *)
(* non-ASCII character is written by its code point ("u3002" is the        *)
(* ideographic full stop).                                                 *)
(***************************************************************************)
EXTENDS Integers, Sequences, FiniteSets, TLC

(* Bounds                                                                  *)

MaxFiles == 3        \* entries in the listed directory
MaxStrLen == 2       \* length of a title / author / extension of the round trip
MaxPage == 11        \* largest page number of the round trip
NumCallers == 2      \* concurrent callers of one provider instance
MaxTime == 24        \* the clock stops here
TicksPerSecond == 10 \* the clock counts ticks
MaxTextLen == 4      \* length of a text handed to clean_ocr_text
MaxWorkerFiles == 3  \* files handed to one OcrWorker
MaxRenderPages == 3  \* pages handed to generate_markdown
MaxSelected == 2     \* files in the list of the main window
MaxRuns == 2         \* conversions started in the main window
MaxEdits == 3        \* edits of the file list and the settings of the main window
MaxConfigOps == 3    \* calls of the ConfigManager and events on its file
MaxPieces == 3       \* pieces a paragraph handed to _format_paragraph is built of

VARIABLES
    \* ---- file_parser.py ----
    fp_pc,            \* position of the FileParser scenario
    directory,        \* os.listdir order: sequence of [name, isfile]
    listdir_ok,       \* FALSE when os.listdir raises OSError
    selected_file,    \* the path handed to detect_series_files
    series_files,     \* the list detect_series_files returned
    missing_arg,      \* the list handed to get_missing_files
    missing_pages,    \* the list get_missing_files returned
    series_valid,     \* what validate_file_series returned for the same list
    codec_in,         \* (title, page, author, extension) of the round trip
    codec_out,        \* what parse_filename returned for the built name
    \* ---- ocr_service.py ----
    current_provider, \* OcrService.current_provider and the instance's fields
    request_lock,     \* holder of the provider's request_lock, 0 when free
    now,              \* time.time(), in ticks
    caller_pc,        \* position of each caller of recognize_image
    wake,             \* per caller: the instant its time.sleep ends
    last_start,       \* instant the latest recognition started, 0 before the first
    min_gap,          \* smallest interval seen between two successive starts
    qps_requested,    \* the QPS limit the current provider was set up with
    setup_result,     \* what the latest setup_provider call returned
    \* ---- ocr_service.py: one recognize_image call after the other ----
    rc_pc,            \* position of the call of OcrService.recognize_image
    rc_image,         \* the image file the call is about
    rc_calls,         \* number of calls made so far
    rc_sent,          \* whether the call has sent a request to the provider
    rc_outcome,       \* what the call returned or raised
    rc_stamp_before,  \* last_request_time when the call began
    rc_waited,        \* ticks the call has slept in the throttle
    rc_cause,         \* what made the request fail: the network or the API
    \* ---- ocr_service.py: BaiduOcrProvider.get_access_token ----
    tk_pc,            \* per caller: position in get_access_token
    tk_got,           \* per caller: the token its latest call returned
    tk_pending,       \* per caller: the exchange it has under way
    tk_log,           \* the token exchanges made so far, in order
    tk_overlap,       \* whether two calls of get_access_token ever overlapped
    \* ---- main_window.py: OcrWorker ----
    wk_pc,            \* position of OcrWorker.run
    wk_file_paths,       \* OcrWorker.file_paths: per file, whether the path exists
    wk_ocr_config,       \* OcrWorker.ocr_config
    wk_i,             \* the loop index i (0-based, as in the code)
    wk_ocr_text,         \* the local ocr_text
    wk_pages,            \* the local list of PageContent
    signals,          \* every signal emitted so far, in order
    recognize_calls,  \* the loop indices recognize_image was called for
    \* ---- main_window.py: the error signal and its suggestion ----
    er_pc,            \* position of the error report scenario
    er_file_name,     \* os.path.basename of the file that failed
    er_failure,       \* the failure: its kind and the text of the exception
    er_message,       \* the text the error_occurred signal carries
    er_suggestion,    \* what _get_error_suggestion returned for it
    \* ---- markdown_processor.py: clean_ocr_text ----
    cl_pc,            \* position of the cleaning scenario
    cl_raw_text,         \* the text handed to clean_ocr_text
    cleaned_once,     \* clean_ocr_text(cl_raw_text)
    cleaned_twice,    \* clean_ocr_text(cleaned_once)
    cl_page,          \* process_page_content(page_number, cl_raw_text)
    \* ---- markdown_processor.py: generate_markdown, _format_paragraph ----
    rd_pc,            \* position of the rendering scenario
    rd_pages,         \* the list of PageContent handed to generate_markdown
    rd_title,         \* the title handed to generate_markdown
    rd_author,        \* the author handed to generate_markdown
    rd_markdown,      \* the text generate_markdown returned
    rd_connected,     \* connected_paragraphs of that call of generate_markdown
    rd_formatted,     \* the text format_markdown_structure returned
    wr_paragraph,     \* the paragraph handed to _format_paragraph
    wr_lines,         \* the list of lines _format_paragraph returned
    \* ---- config_manager.py: ConfigManager ----
    cm_default,       \* self.default_config
    cm_file,          \* the config file: absent, unreadable, or its JSON content
    cm_returned,      \* what the last call returned, and the file it found
    cm_ops,           \* number of calls and file events so far
    \* ---- main_window.py: MainWindow and its OcrWorker ----
    mw_pc,                     \* "init" until load_settings has run
    selected_files,            \* the list object self.selected_files
    mw_edits,                  \* number of edits of the list and the settings so far
    ocr_service_combo,         \* currentText() of the combo box
    api_key_input,             \* text() of the API key field
    secret_key_input,          \* text() of the secret key field
    secret_key_input_enabled,  \* isEnabled() of the secret key field
    save_pending,              \* the timer of delayed_auto_save is running
    convert_btn_enabled,       \* isEnabled() of the convert button
    workers,                   \* every OcrWorker created, in order
    mw_queue,                  \* finished and error_occurred signals not yet handled
    mw_saved                   \* what on_conversion_finished saved last

fpVars == <<fp_pc, directory, listdir_ok, selected_file, series_files,
            missing_arg, missing_pages, series_valid, codec_in, codec_out>>

rcVars == <<rc_pc, rc_image, rc_calls, rc_sent, rc_outcome, rc_stamp_before,
            rc_waited, rc_cause>>

tkVars == <<tk_pc, tk_got, tk_pending, tk_log, tk_overlap>>

ocrVars == <<current_provider, request_lock, now, caller_pc, wake,
             last_start, min_gap, qps_requested, setup_result, rcVars, tkVars>>

erVars == <<er_pc, er_file_name, er_failure, er_message, er_suggestion>>

wkVars == <<wk_pc, wk_file_paths, wk_ocr_config, wk_i, wk_ocr_text, wk_pages, signals,
            recognize_calls, erVars>>

rdVars == <<rd_pc, rd_pages, rd_title, rd_author, rd_markdown, rd_connected,
            rd_formatted, wr_paragraph, wr_lines>>

cmVars == <<cm_default, cm_file, cm_returned, cm_ops>>

mwVars == <<mw_pc, selected_files, mw_edits, ocr_service_combo, api_key_input,
            secret_key_input, secret_key_input_enabled, save_pending,
            convert_btn_enabled, workers, mw_queue, mw_saved>>

appVars == <<cmVars, mwVars>>

mdVars == <<cl_pc, cl_raw_text, cleaned_once, cleaned_twice, cl_page, rdVars>>

clVars == <<mdVars, appVars>>

vars == <<fpVars, ocrVars, wkVars, clVars>>

----------------------------------------------------------------------------
(* The parts of the program are exercised one at a time: a scenario leaves *)
(* the variables of the other parts at these values.                       *)

\* OcrService.__init__: current_provider = None
NoProvider == [name |-> "None"]

\* the clock at program start: time.time() is far from its epoch 0, at least
\* a second
BootTime == 10

Callers == 1..NumCallers

\* validate_file_series has not been called
NoVerdict == [complete |-> FALSE, reason |-> "none", page |-> 0]

FpIdle ==
    /\ fp_pc = "idle"
    /\ series_valid = NoVerdict
    /\ directory = <<>>
    /\ listdir_ok = TRUE
    /\ selected_file = [dir |-> "dir", base |-> <<>>]
    /\ series_files = <<>>
    /\ missing_arg = <<>>
    /\ missing_pages = <<>>
    /\ codec_in = [title |-> <<>>, page |-> 0, author |-> <<>>, extension |-> <<>>]
    /\ codec_out = [matched |-> FALSE]

\* an image file: whether the path exists, whether it is a regular file, its
\* size in bytes and its extension
NoImage == [exists |-> FALSE, isfile |-> FALSE, size |-> 0, ext |-> <<>>]

NoOutcome == [kind |-> "none", text |-> <<>>]

RcIdle ==
    /\ rc_pc = "idle"
    /\ rc_image = NoImage
    /\ rc_calls = 0
    /\ rc_sent = FALSE
    /\ rc_outcome = NoOutcome
    /\ rc_stamp_before = 0
    /\ rc_waited = 0
    /\ rc_cause = "none"

\* no exchange under way
NoPending == [at |-> 0, held |-> 0, held_expire |-> 0, token |-> 0, expires_in |-> 0]

TkIdle ==
    /\ tk_pc = [c \in Callers |-> "idle"]
    /\ tk_got = [c \in Callers |-> 0]
    /\ tk_pending = [c \in Callers |-> NoPending]
    /\ tk_log = <<>>
    /\ tk_overlap = FALSE

ThrottleIdle ==
    /\ current_provider = NoProvider
    /\ request_lock = 0
    /\ now = BootTime
    /\ caller_pc = [c \in Callers |-> "idle"]
    /\ wake = [c \in Callers |-> 0]
    /\ last_start = 0
    /\ min_gap = TicksPerSecond
    /\ qps_requested = 0
    /\ setup_result = FALSE

OcrIdle == ThrottleIdle /\ RcIdle /\ TkIdle

NoFailure == [kind |-> "none", provider |-> "None", text |-> <<>>]

ErIdle ==
    /\ er_pc = "idle"
    /\ er_file_name = <<>>
    /\ er_failure = NoFailure
    /\ er_message = <<>>
    /\ er_suggestion = "none"

WkIdle ==
    /\ wk_pc = "idle"
    /\ wk_file_paths = <<>>
    /\ wk_ocr_config = [service |-> "None", api_key |-> "", secret_key |-> ""]
    /\ wk_i = 0
    /\ wk_ocr_text = <<>>
    /\ wk_pages = <<>>
    /\ signals = <<>>
    /\ recognize_calls = <<>>
    /\ ErIdle

RdIdle ==
    /\ rd_pc = "idle"
    /\ rd_pages = <<>>
    /\ rd_title = <<>>
    /\ rd_author = <<>>
    /\ rd_markdown = <<>>
    /\ rd_connected = <<>>
    /\ rd_formatted = <<>>
    /\ wr_paragraph = <<>>
    /\ wr_lines = <<>>

\* a value of a config dict: a string or a number, or a dict of its own
Leaf(v)     == [leaf |-> TRUE, v |-> v]
Dict(items) == [leaf |-> FALSE, items |-> items]

\* ConfigManager.__init__, lines 35-66: the built-in configuration
default_config ==
    [ocr |-> Dict([service |-> Leaf("BaiduOCR"),
                   baidu   |-> Dict([api_key |-> Leaf(""), secret_key |-> Leaf("")]),
                   tencent |-> Dict([secret_id |-> Leaf(""), secret_key |-> Leaf(""),
                                     region |-> Leaf("ap-beijing")]),
                   aliyun  |-> Dict([access_key_id |-> Leaf(""),
                                     access_key_secret |-> Leaf(""),
                                     region |-> Leaf("cn-shanghai")])]),
     output |-> Dict([directory |-> Leaf(""), filename_pattern |-> Leaf("{title}")]),
     ui |-> Dict([window_geometry |-> Leaf(""), splitter_state |-> Leaf("")]),
     performance |-> Dict([baidu_qps |-> Leaf(2), tencent_qps |-> Leaf(5),
                           aliyun_qps |-> Leaf(5)])]

\* the config file does not exist, or exists and cannot be read or parsed
AbsentFile     == [state |-> "absent", content |-> [none |-> Leaf("")]]
UnreadableFile == [state |-> "unreadable", content |-> [none |-> Leaf("")]]
JsonFile(config) == [state |-> "json", content |-> config]

\* no call has returned
NothingReturned == [call |-> "none", found |-> "none", value |-> [none |-> Leaf("")]]

CmIdle ==
    /\ cm_default = default_config
    /\ cm_file = AbsentFile
    /\ cm_returned = NothingReturned
    /\ cm_ops = 0

\* on_conversion_finished has not run
NothingSaved == [run |-> 0, from |-> ""]

\* MainWindow.__init__ up to init_ui: no file, no worker, the widgets as
\* they are constructed (the first item of the combo box is current, the
\* fields are empty and enabled)
WindowConstructed ==
    /\ selected_files = <<>>
    /\ mw_edits = 0
    /\ ocr_service_combo = "BaiduOCR"
    /\ api_key_input = ""
    /\ secret_key_input = ""
    /\ secret_key_input_enabled = TRUE
    /\ save_pending = FALSE
    /\ convert_btn_enabled = TRUE
    /\ workers = <<>>
    /\ mw_queue = <<>>
    /\ mw_saved = NothingSaved

MwIdle == mw_pc = "idle" /\ WindowConstructed

AppIdle == CmIdle /\ MwIdle

\* process_page_content has not been called
NoPage == [page_number |-> 0, raw_text |-> <<>>, cleaned_text |-> <<>>,
           paragraphs |-> <<>>]

MdIdle ==
    /\ cl_pc = "idle"
    /\ cl_raw_text = <<>>
    /\ cleaned_once = <<>>
    /\ cleaned_twice = <<>>
    /\ cl_page = NoPage
    /\ RdIdle

ClIdle == MdIdle /\ AppIdle

----------------------------------------------------------------------------
(* Characters and strings                                                  *)

NL == "\n"

Digits == {"0", "1", "2", "3", "4", "5", "6", "7", "8", "9"}

\* int() of one decimal digit
DigitVal(c) ==
    CASE c = "0" -> 0 [] c = "1" -> 1 [] c = "2" -> 2 [] c = "3" -> 3
      [] c = "4" -> 4 [] c = "5" -> 5 [] c = "6" -> 6 [] c = "7" -> 7
      [] c = "8" -> 8 [] c = "9" -> 9

DigitChar(d) ==
    CASE d = 0 -> "0" [] d = 1 -> "1" [] d = 2 -> "2" [] d = 3 -> "3"
      [] d = 4 -> "4" [] d = 5 -> "5" [] d = 6 -> "6" [] d = 7 -> "7"
      [] d = 8 -> "8" [] d = 9 -> "9"

\* int(s) for a non-empty run of decimal digits (Python integers are unbounded)
RECURSIVE StrToInt(_)
StrToInt(s) ==
    IF Len(s) = 0 THEN 0
    ELSE 10 * StrToInt(SubSeq(s, 1, Len(s) - 1)) + DigitVal(s[Len(s)])

\* str(n) for n >= 0, as an f-string formats it
RECURSIVE IntToStr(_)
IntToStr(n) ==
    IF n < 10 THEN <<DigitChar(n)>>
    ELSE IntToStr(n \div 10) \o <<DigitChar(n % 10)>>

\* s[from..] starts with the literal lit
StartsWithAt(s, from, lit) ==
    /\ from + Len(lit) - 1 <= Len(s)
    /\ \A k \in 1..Len(lit) : s[from + k - 1] = lit[k]

\* the regular expression's "." : any character but the newline
DotRun(s, from, to) == \A k \in from..to : s[k] # NL

SeqToSet(s) == {s[k] : k \in 1..Len(s)}

\* all sequences over S of length lo..hi
StringsOver(S, lo, hi) == UNION {[1..n -> S] : n \in lo..hi}

----------------------------------------------------------------------------
(* file_parser.py: FileParser.parse_filename                               *)

\* "来自小红书网页版"
Suffix == <<"u6765", "u81EA", "u5C0F", "u7EA2", "u4E66", "u7F51", "u9875", "u7248">>

\* the literal between the author group and the extension group:
\* "_来自小红书网页版\."
SuffixLiteral == <<"_">> \o Suffix \o <<".">>

None == [matched |-> FALSE]

\* end of the greedy \d+ that starts at from (from - 1 when there is no digit)
RECURSIVE DigitRunEnd(_, _)
DigitRunEnd(s, from) ==
    IF from <= Len(s) /\ s[from] \in Digits THEN DigitRunEnd(s, from + 1)
    ELSE from - 1

\* where (.+)$ may end: at the end of the string or just before a final newline
ExtEnds(s) ==
    {Len(s)} \cup (IF Len(s) > 0 /\ s[Len(s)] = NL THEN {Len(s) - 1} ELSE {})

\* The pattern (.+?)_(\d+)_(.+?)_来自小红书网页版\.(.+)$ is matched from the
\* first character of s (re.match).  A match is <<i, j, k, e>>: title s[1..i],
\* digits s[i+2..j], author s[j+2..k], extension s[k+Len(SuffixLiteral)+1..e].

\* ends i of a title (.+?) that is followed by _(\d+)_ ; the digits are
\* followed by "_", so only the maximal digit run can match
TitleEnds(s) ==
    {i \in 1..(Len(s) - 1) :
        /\ s[i + 1] = "_"
        /\ DigitRunEnd(s, i + 2) >= i + 2
        /\ DigitRunEnd(s, i + 2) + 1 <= Len(s)
        /\ s[DigitRunEnd(s, i + 2) + 1] = "_"
        /\ DotRun(s, 1, i)}

\* ends k of an author (.+?) that starts at from and is followed by the
\* suffix literal
AuthorEnds(s, from) ==
    {k \in from..Len(s) :
        /\ StartsWithAt(s, k + 1, SuffixLiteral)
        /\ DotRun(s, from, k)}

\* ends e of an extension (.+)$ that starts at from
ExtensionEnds(s, from) ==
    {e \in ExtEnds(s) : e >= from /\ DotRun(s, from, e)}

PatternMatches(s) ==
    UNION {UNION {{<<i, DigitRunEnd(s, i + 2), k, e>> :
                      e \in ExtensionEnds(s, k + Len(SuffixLiteral) + 1)} :
                  k \in AuthorEnds(s, DigitRunEnd(s, i + 2) + 2)} :
           i \in TitleEnds(s)}

\* The match the backtracking engine reports: the lazy title is as short as
\* possible, then the lazy author as short as possible, then the greedy
\* extension as long as possible.
Preferred(m, n) ==
    \/ m[1] < n[1]
    \/ m[1] = n[1] /\ m[3] < n[3]
    \/ m[1] = n[1] /\ m[3] = n[3] /\ m[4] >= n[4]

FirstMatch(s) ==
    CHOOSE m \in PatternMatches(s) : \A n \in PatternMatches(s) : Preferred(m, n)

\* match.groups(), the page number converted by int()
Groups(filename, m) ==
    [matched   |-> TRUE,
     title     |-> SubSeq(filename, 1, m[1]),
     page_num  |-> StrToInt(SubSeq(filename, m[1] + 2, m[2])),
     author    |-> SubSeq(filename, m[2] + 2, m[3]),
     extension |-> SubSeq(filename, m[3] + Len(SuffixLiteral) + 1, m[4])]

parse_filename(filename) ==
    IF PatternMatches(filename) = {} THEN None
    ELSE Groups(filename, FirstMatch(filename))

\* the naming convention <title>_<page>_<author>_来自小红书网页版.<ext>,
\* with the page written as the digit string digits
BuildName(title, digits, author, extension) ==
    title \o <<"_">> \o digits \o <<"_">> \o author \o SuffixLiteral \o extension

----------------------------------------------------------------------------
(* file_parser.py: paths and the series resolver                           *)

\* a path is a directory and a basename
Join(dir, file) == [dir |-> dir, base |-> file]
Basename(path) == path.base
Dirname(path) == path.dir

\* sort_files_by_page_number.get_page_number
PageOrZero(parsed) == IF parsed.matched THEN parsed.page_num ELSE 0

get_page_number(file_path) == PageOrZero(parse_filename(Basename(file_path)))

\* the last position of a set of positions, 0 for none
LastOf(positions) ==
    IF positions = {} THEN 0
    ELSE CHOOSE k \in positions : \A l \in positions : l <= k

InsertAfter(acc, n, x) == SubSeq(acc, 1, n) \o <<x>> \o SubSeq(acc, n + 1, Len(acc))

\* mutant of StableInsert: an unstable sort, x goes before the elements of
\* equal key
StableInsert_Unstable(acc, x) ==
    InsertAfter(acc,
                LastOf({k \in 1..Len(acc) :
                           get_page_number(acc[k]) < get_page_number(x)}),
                x)

\* sorted(): where a stable sort puts x into the sorted list acc, after
\* every element whose key is not greater
StableInsert(acc, x) ==
    InsertAfter(acc,
                LastOf({k \in 1..Len(acc) :
                           get_page_number(acc[k]) <= get_page_number(x)}),
                x)

RECURSIVE sort_files_by_page_number(_)
sort_files_by_page_number(file_paths) ==
    IF Len(file_paths) = 0 THEN <<>>
    ELSE StableInsert(
             sort_files_by_page_number(SubSeq(file_paths, 1, Len(file_paths) - 1)),
             file_paths[Len(file_paths)])

\* mutant of SameSeries: the extension is not compared
SameSeries_NoExtension(file_parsed, parsed) ==
    /\ file_parsed.title = parsed.title
    /\ file_parsed.author = parsed.author

\* the test of detect_series_files that a parsed directory entry belongs to
\* the series of the selected file
SameSeries(file_parsed, parsed) ==
    /\ file_parsed.title = parsed.title
    /\ file_parsed.author = parsed.author
    /\ file_parsed.extension = parsed.extension

\* the three nested tests on one directory entry
Kept(file, file_parsed, parsed) ==
    file.isfile /\ file_parsed.matched /\ SameSeries(file_parsed, parsed)

\* the loop over os.listdir(directory): the entries kept, in listing order
RECURSIVE ScanDirectory(_, _, _)
ScanDirectory(dir, listing, parsed) ==
    IF Len(listing) = 0 THEN <<>>
    ELSE (IF Kept(listing[1], parse_filename(listing[1].name), parsed)
          THEN <<Join(dir, listing[1].name)>> ELSE <<>>)
         \o ScanDirectory(dir, Tail(listing), parsed)

\* mutant of detect_series_files: the OSError handler returns the (empty)
\* list collected so far
detect_series_files_EmptyOnError(selected, listing, ok) ==
    IF PatternMatches(Basename(selected)) = {} THEN <<selected>>
    ELSE IF ~ok THEN <<>>
    ELSE sort_files_by_page_number(
             ScanDirectory(Dirname(selected), listing,
                           parse_filename(Basename(selected))))

\* listing is what os.listdir returns, ok is FALSE when it raises OSError
detect_series_files(selected, listing, ok) ==
    IF PatternMatches(Basename(selected)) = {} THEN <<selected>>
    ELSE IF ~ok THEN <<selected>>
    ELSE sort_files_by_page_number(
             ScanDirectory(Dirname(selected), listing,
                           parse_filename(Basename(selected))))

\* the parsed page numbers of get_missing_files, in list order
RECURSIVE PageNumbers(_)
PageNumbers(file_paths) ==
    IF Len(file_paths) = 0 THEN <<>>
    ELSE (IF PatternMatches(Basename(file_paths[1])) = {} THEN <<>>
          ELSE <<parse_filename(Basename(file_paths[1])).page_num>>)
             \o PageNumbers(Tail(file_paths))

\* list.sort() of integers
RECURSIVE SortInts(_)
SortInts(s) ==
    IF Len(s) = 0 THEN <<>>
    ELSE LET rest == SortInts(SubSeq(s, 1, Len(s) - 1))
             x == s[Len(s)]
             before == {k \in 1..Len(rest) : rest[k] <= x}
             n == Cardinality(before)
         IN  SubSeq(rest, 1, n) \o <<x>> \o SubSeq(rest, n + 1, Len(rest))

\* for i in range(lo, hi + 1): if i not in page_numbers: append
RECURSIVE MissingIn(_, _, _)
MissingIn(lo, hi, page_numbers) ==
    IF lo > hi THEN <<>>
    ELSE (IF lo \in SeqToSet(page_numbers) THEN <<>> ELSE <<lo>>)
         \o MissingIn(lo + 1, hi, page_numbers)

\* mutant of get_missing_files: page_numbers.sort() is left out
get_missing_files_Unsorted(file_paths) ==
    IF Len(file_paths) = 0 THEN <<>>
    ELSE LET page_numbers == PageNumbers(file_paths)
         IN  IF Len(page_numbers) = 0 THEN <<>>
             ELSE MissingIn(page_numbers[1], page_numbers[Len(page_numbers)],
                            page_numbers)

get_missing_files(file_paths) ==
    IF Len(file_paths) = 0 THEN <<>>
    ELSE LET page_numbers == SortInts(PageNumbers(file_paths))
         IN  IF Len(page_numbers) = 0 THEN <<>>
             ELSE MissingIn(page_numbers[1], page_numbers[Len(page_numbers)],
                            page_numbers)

\* the parse of every file of the list, in order
ParsedFiles(file_paths) ==
    [k \in 1..Len(file_paths) |-> parse_filename(Basename(file_paths[k]))]

\* the file the loop of validate_file_series returns at: it does not parse,
\* or it differs from the first in title, author or extension
Rejected(parsed, k) ==
    \/ ~parsed[k].matched
    \/ k > 1 /\ (\/ parsed[k].title # parsed[1].title
                 \/ parsed[k].author # parsed[1].author
                 \/ parsed[k].extension # parsed[1].extension)

\* the loop over the sorted page numbers: the first i with
\* page_numbers[i] != page_numbers[i-1] + 1
ContinuityVerdict(page_numbers) ==
    IF \E i \in 2..Len(page_numbers) : page_numbers[i] # page_numbers[i - 1] + 1
    THEN [complete |-> FALSE, reason |-> "gap",
          page |-> page_numbers[(CHOOSE i \in 2..Len(page_numbers) :
                       /\ page_numbers[i] # page_numbers[i - 1] + 1
                       /\ \A j \in 2..(i - 1) :
                              page_numbers[j] = page_numbers[j - 1] + 1) - 1] + 1]
    ELSE [complete |-> TRUE, reason |-> "complete", page |-> Len(page_numbers)]

\* the loop over the files, given their parses
SeriesVerdict(parsed) ==
    IF \E k \in 1..Len(parsed) : Rejected(parsed, k)
    THEN [complete |-> FALSE,
          reason |-> IF parsed[CHOOSE k \in 1..Len(parsed) :
                                 /\ Rejected(parsed, k)
                                 /\ \A j \in 1..(k - 1) : ~Rejected(parsed, j)].matched
                     THEN "other_series" ELSE "format",
          page |-> 0]
    ELSE ContinuityVerdict(SortInts([k \in 1..Len(parsed) |-> parsed[k].page_num]))

\* validate_file_series: whether the series is complete, and what the
\* message is about
validate_file_series(file_paths) ==
    IF Len(file_paths) = 0
    THEN [complete |-> FALSE, reason |-> "no_files", page |-> 0]
    ELSE SeriesVerdict(ParsedFiles(file_paths))

----------------------------------------------------------------------------
(* file_parser.py: the scenarios                                           *)

Jpg == <<"j", "p", "g">>
Png == <<"p", "n", "g">>

\* names of one series: pages 1, 2, 10 and a second page 1 written "01"
SeriesNames ==
    {BuildName(<<"a">>, ds, <<"x">>, Jpg) :
        ds \in {<<"1">>, <<"2">>, <<"0", "1">>, <<"1", "0">>}}

\* another title, another extension, another author, and a name outside
\* the convention
OtherNames ==
    {BuildName(<<"b">>, <<"1">>, <<"x">>, Jpg),
     BuildName(<<"a">>, <<"1">>, <<"x">>, Png),
     BuildName(<<"a">>, <<"3">>, <<"y">>, Jpg),
     <<"n", ".", "t", "x", "t">>}

FileNames == SeriesNames \cup OtherNames

\* the names the user may click: a page of the series, the file with the
\* other extension, the name outside the convention
SelectedNames ==
    {BuildName(<<"a">>, <<"1">>, <<"x">>, Jpg),
     BuildName(<<"a">>, <<"1">>, <<"x">>, Png),
     <<"n", ".", "t", "x", "t">>}

TheDir == "dir"

\* every order in which os.listdir may return up to MaxFiles distinct names
Listings ==
    {l \in StringsOver(FileNames, 0, MaxFiles) :
        \A a, b \in 1..Len(l) : a # b => l[a] # l[b]}

\* the characters of the round trip: none is the separator "_"
CodecAlphabet == {"a", "1", NL}

NoCodec == [title |-> <<>>, page |-> 0, author |-> <<>>, extension |-> <<>>]

\* a directory, at most one entry of which is not a regular file, and a
\* selected path in it (the selected file need not be listed)
SeriesInit ==
    /\ fp_pc = "ready"
    /\ \E l \in Listings : \E notfile \in {0} \cup (1..Len(l)) :
           directory = [k \in 1..Len(l) |-> [name |-> l[k], isfile |-> k # notfile]]
    /\ listdir_ok \in BOOLEAN
    /\ \E n \in SelectedNames : selected_file = Join(TheDir, n)
    /\ series_files = <<>>
    /\ missing_arg = <<>>
    /\ missing_pages = <<>>
    /\ series_valid = NoVerdict
    /\ codec_in = NoCodec
    /\ codec_out = None
    /\ OcrIdle /\ WkIdle /\ ClIdle

CodecInit ==
    /\ fp_pc = "codec"
    /\ directory = <<>>
    /\ listdir_ok = TRUE
    /\ selected_file = Join(TheDir, <<>>)
    /\ series_files = <<>>
    /\ missing_arg = <<>>
    /\ missing_pages = <<>>
    /\ series_valid = NoVerdict
    /\ \E t, a, e \in StringsOver(CodecAlphabet, 1, MaxStrLen) : \E p \in 1..MaxPage :
           codec_in = [title |-> t, page |-> p, author |-> a, extension |-> e]
    /\ codec_out = None
    /\ OcrIdle /\ WkIdle /\ ClIdle

\* the paths of all listed entries, in listing order
ListingPaths == [k \in 1..Len(directory) |-> Join(TheDir, directory[k].name)]

DetectSeriesFiles ==
    /\ fp_pc = "ready"
    /\ series_files' = detect_series_files(selected_file,
                           [k \in 1..Len(directory) |-> directory[k]], listdir_ok)
    /\ fp_pc' = "resolved"
    /\ UNCHANGED <<directory, listdir_ok, selected_file, missing_arg,
                   missing_pages, series_valid, codec_in, codec_out,
                   ocrVars, wkVars, clVars>>

\* get_missing_files on the resolved series or on every listed path
GetMissingFiles ==
    /\ fp_pc = "resolved"
    /\ \E arg \in {series_files, ListingPaths} :
           /\ missing_arg' = arg
           /\ missing_pages' = get_missing_files(arg)
    /\ fp_pc' = "reported"
    /\ UNCHANGED <<directory, listdir_ok, selected_file, series_files,
                   series_valid, codec_in, codec_out, ocrVars, wkVars, clVars>>

\* validate_file_series on the list get_missing_files was called with
ValidateFileSeries ==
    /\ fp_pc = "reported"
    /\ series_valid' = validate_file_series(missing_arg)
    /\ fp_pc' = "validated"
    /\ UNCHANGED <<directory, listdir_ok, selected_file, series_files,
                   missing_arg, missing_pages, codec_in, codec_out,
                   ocrVars, wkVars, clVars>>

\* parse_filename on the name built by the convention
ParseBuiltName ==
    /\ fp_pc = "codec"
    /\ codec_out' = parse_filename(BuildName(codec_in.title, IntToStr(codec_in.page),
                                             codec_in.author, codec_in.extension))
    /\ fp_pc' = "parsed"
    /\ UNCHANGED <<directory, listdir_ok, selected_file, series_files,
                   missing_arg, missing_pages, series_valid, codec_in,
                   ocrVars, wkVars, clVars>>

SeriesNext == DetectSeriesFiles \/ GetMissingFiles \/ ValidateFileSeries

SpecSeries == SeriesInit /\ [][SeriesNext]_vars

SpecCodec == CodecInit /\ [][ParseBuiltName]_vars

----------------------------------------------------------------------------
(* Claims about file_parser.py                                             *)

SelectedParses == parse_filename(Basename(selected_file)).matched

\* the parsed page number of the k-th returned file
PageOf(files, k) == parse_filename(Basename(files[k])).page_num

\* position of a returned path in the directory listing
ListingIndex(path) == CHOOSE k \in 1..Len(directory) : directory[k].name = Basename(path)

\* the regular files of the directory whose parsed (title, author, extension)
\* is that of the selected file
SeriesOfSelected ==
    LET sel == parse_filename(Basename(selected_file))
    IN  {Join(TheDir, directory[k].name) : k \in
            {k \in 1..Len(directory) :
                LET f == parse_filename(directory[k].name)
                IN  /\ directory[k].isfile
                    /\ f.matched
                    /\ <<f.title, f.author, f.extension>>
                         = <<sel.title, sel.author, sel.extension>>}}

\* C1: when the selected basename parses and the directory can be listed,
\* detect_series_files returns exactly the regular files of the directory
\* with the selected file's (title, author, extension), each once, ordered
\* by non-decreasing numeric page number.
C1_SeriesExactAndOrdered ==
    (fp_pc # "ready" /\ SelectedParses /\ listdir_ok) =>
        /\ SeqToSet(series_files) = SeriesOfSelected
        /\ Len(series_files) = Cardinality(SeriesOfSelected)
        /\ \A a, b \in 1..Len(series_files) :
               a < b => PageOf(series_files, a) <= PageOf(series_files, b)

\* pages 10 and 2 listed in that order, with an entry outside the series
\* between them, come back as [2, 10]
C1_Witness ==
    /\ fp_pc = "resolved"
    /\ SelectedParses
    /\ listdir_ok
    /\ Len(directory) = 3
    /\ Len(series_files) = 2
    /\ PageOf(series_files, 1) = 2
    /\ PageOf(series_files, 2) = 10
    /\ directory[1].name = Basename(series_files[2])
    /\ directory[3].name = Basename(series_files[1])

\* C2 (as claimed): parse_filename of the name built by the convention from a
\* non-empty title, author and extension without "_" and a page >= 1
\* returns exactly (title, page, author, extension).
C2_RoundTrip ==
    fp_pc = "parsed" =>
        codec_out = [matched   |-> TRUE,
                     title     |-> codec_in.title,
                     page_num  |-> codec_in.page,
                     author    |-> codec_in.author,
                     extension |-> codec_in.extension]

HasNewline(str) == NL \in SeqToSet(str)

\* the round trip of names whose parts hold no newline
RoundTripWithoutNewline ==
    (/\ fp_pc = "parsed"
     /\ ~HasNewline(codec_in.title)
     /\ ~HasNewline(codec_in.author)
     /\ ~HasNewline(codec_in.extension)) =>
        /\ codec_out.matched
        /\ codec_out.title = codec_in.title
        /\ codec_out.page_num = codec_in.page
        /\ codec_out.author = codec_in.author
        /\ codec_out.extension = codec_in.extension

\* C3 (as claimed): the returned page sequence is strictly ascending, no two
\* returned files carry the same parsed page number.
C3_StrictlyAscending ==
    (fp_pc # "ready" /\ SelectedParses /\ listdir_ok) =>
        \A a, b \in 1..Len(series_files) :
            a < b => PageOf(series_files, a) < PageOf(series_files, b)

\* C3 (amended): the returned page sequence is ascending; returned files that
\* carry the same parsed page number keep their directory-listing order.
C3_AscendingTiesInListingOrder ==
    (fp_pc # "ready" /\ SelectedParses /\ listdir_ok) =>
        \A a, b \in 1..Len(series_files) :
            a < b =>
                \/ PageOf(series_files, a) < PageOf(series_files, b)
                \/ /\ PageOf(series_files, a) = PageOf(series_files, b)
                   /\ ListingIndex(series_files[a]) < ListingIndex(series_files[b])

\* two returned files carry the same page number
C3_Witness ==
    /\ fp_pc = "resolved"
    /\ SelectedParses
    /\ listdir_ok
    /\ \E a, b \in 1..Len(series_files) :
           a < b /\ PageOf(series_files, a) = PageOf(series_files, b)

\* the page numbers parsed from the list handed to get_missing_files
ParsedPages(files) ==
    {parse_filename(Basename(files[k])).page_num : k \in
        {k \in 1..Len(files) : parse_filename(Basename(files[k])).matched}}

\* the list validate_file_series was called with is one C25 speaks of: not
\* empty, every file parses, one title, author and extension
OneSeries(file_paths) ==
    /\ Len(file_paths) > 0
    /\ \A k \in 1..Len(file_paths) :
           ~Rejected(ParsedFiles(file_paths), k)

\* C25 (as claimed): for a non-empty list of files that all parse and share
\* one (title, author, extension), validate_file_series reports the series
\* complete if and only if get_missing_files returns the empty list.
C25_CompleteIffNothingMissing ==
    (fp_pc = "validated" /\ OneSeries(missing_arg)) =>
        (series_valid.complete <=> missing_pages = <<>>)

\* what holds of it: a series reported complete has no missing page, and a
\* series without two files of one page number is complete when none is
\* missing
CompleteIffNothingMissingNoDuplicates ==
    (fp_pc = "validated" /\ OneSeries(missing_arg)) =>
        /\ series_valid.complete => missing_pages = <<>>
        /\ (\A a, b \in 1..Len(missing_arg) :
                a # b => ParsedFiles(missing_arg)[a].page_num
                             # ParsedFiles(missing_arg)[b].page_num)
              => (series_valid.complete <=> missing_pages = <<>>)

\* C4: get_missing_files returns, in ascending order, exactly the integers
\* between the minimum and the maximum parsed page number that no file
\* carries; the result is empty iff the page numbers are contiguous.
C4_MissingPages ==
    fp_pc = "reported" =>
        LET P == ParsedPages(missing_arg)
        IN  IF P = {} THEN missing_pages = <<>>
            ELSE LET lo == CHOOSE n \in P : \A m \in P : n <= m
                     hi == CHOOSE n \in P : \A m \in P : n >= m
                 IN  /\ SeqToSet(missing_pages) = (lo..hi) \ P
                     /\ \A a, b \in 1..Len(missing_pages) :
                            a < b => missing_pages[a] < missing_pages[b]
                     /\ (missing_pages = <<>>) <=> (P = lo..hi)

\* pages 3 and 1 handed over in that order: page 2 is reported missing
C4_Witness ==
    /\ fp_pc = "reported"
    /\ Len(missing_arg) = 2
    /\ ParsedPages(missing_arg) = {1, 3}
    /\ PageOf(missing_arg, 1) = 3
    /\ missing_pages = <<2>>

\* C5: when the selected basename does not match the convention, or
\* os.listdir raises OSError, detect_series_files returns the one-element
\* list holding the selected path, whatever the directory contains.
C5_DegradesToSelected ==
    (fp_pc # "ready" /\ (~SelectedParses \/ ~listdir_ok)) =>
        series_files = <<selected_file>>

\* the listing fails for a selected file that parses, in a directory that
\* holds other files of its series
C5_Witness ==
    /\ fp_pc = "resolved"
    /\ SelectedParses
    /\ ~listdir_ok
    /\ Cardinality(SeriesOfSelected) >= 2
    /\ series_files = <<selected_file>>

\* the selected file is outside the convention, in a directory of series files
C5_WitnessNotMatched ==
    /\ fp_pc = "resolved"
    /\ ~SelectedParses
    /\ listdir_ok
    /\ \E k \in 1..Len(directory) : parse_filename(directory[k].name).matched
    /\ series_files = <<selected_file>>

----------------------------------------------------------------------------
(* ocr_service.py: OcrService.setup_provider and the providers             *)

\* "百度OCR", "腾讯OCR", "阿里云OCR"
ProviderNames == {"BaiduOCR", "TencentOCR", "AliyunOCR"}

ConfigKeys == {"api_key", "secret_key", "secret_id", "access_key_id",
               "access_key_secret"}

\* a config dict maps each key to its value, or to Absent when the key is
\* not in the dict
Absent == "<absent>"
FieldValues == {Absent, "", "k"}

\* the config dicts that differ in the keys a provider reads
ConfigsFor(keys) ==
    {[key \in ConfigKeys |-> IF key \in keys THEN values[key] ELSE Absent] :
        values \in [keys -> FieldValues]}

\* qps_limit: Optional[int] = None
QpsNone == 0
QpsValues == {1, 2, 5}

\* bool(config.get(key))
Truthy(config, key) == config[key] # Absent /\ config[key] # ""

\* the keys setup_provider reads with config[...] (KeyError when absent)
ConstructorKeys(provider_name) ==
    CASE provider_name = "BaiduOCR"   -> {"api_key", "secret_key"}
      [] provider_name = "TencentOCR" -> {"secret_id", "secret_key"}
      [] provider_name = "AliyunOCR"  -> {"access_key_id", "access_key_secret"}

validate_config(provider_name, config) ==
    CASE provider_name = "BaiduOCR" ->
             Truthy(config, "api_key") /\ Truthy(config, "secret_key")
      [] provider_name = "TencentOCR" ->
             Truthy(config, "secret_id") /\ Truthy(config, "secret_key")
      [] provider_name = "AliyunOCR" ->
             Truthy(config, "access_key_id") /\ Truthy(config, "access_key_secret")

\* BaiduOcrProvider.__init__
BaiduOcrProvider(api_key, secret_key, qps_limit) ==
    [name |-> "BaiduOCR", api_key |-> api_key, secret_key |-> secret_key,
     access_token |-> 0, token_expire_time |-> 0,
     qps_limit |-> qps_limit, last_request_time |-> 0]

\* TencentOcrProvider.__init__: no qps_limit, no last_request_time, no lock
TencentOcrProvider(secret_id, secret_key) ==
    [name |-> "TencentOCR", secret_id |-> secret_id, secret_key |-> secret_key]

\* AliyunOcrProvider.__init__: no qps_limit, no last_request_time, no lock
AliyunOcrProvider(access_key_id, access_key_secret) ==
    [name |-> "AliyunOCR", access_key_id |-> access_key_id,
     access_key_secret |-> access_key_secret]

\* setup_provider: the provider that is current afterwards and the value
\* returned
setup_provider(current, provider_name, config, qps_limit) ==
    IF provider_name \notin ProviderNames
    THEN [provider |-> current, result |-> FALSE]
    ELSE IF \E key \in ConstructorKeys(provider_name) : config[key] = Absent
    THEN [provider |-> current, result |-> FALSE]      \* KeyError, caught
    ELSE [provider |->
              CASE provider_name = "BaiduOCR" ->
                       BaiduOcrProvider(config["api_key"], config["secret_key"],
                           IF qps_limit # QpsNone THEN qps_limit ELSE 2)
                [] provider_name = "TencentOCR" ->
                       TencentOcrProvider(config["secret_id"], config["secret_key"])
                [] provider_name = "AliyunOCR" ->
                       AliyunOcrProvider(config["access_key_id"],
                                         config["access_key_secret"]),
          result |-> validate_config(provider_name, config)]

\* ConfigManager.default_config["performance"], read by get_qps_limit
get_qps_limit(service_name) ==
    CASE service_name = "BaiduOCR"   -> 2
      [] service_name = "TencentOCR" -> 5
      [] service_name = "AliyunOCR"  -> 5
      [] OTHER -> 2

\* min_interval = 1.0 / self.qps_limit, in ticks
MinInterval(qps_limit) == TicksPerSecond \div qps_limit

Min(a, b) == IF a <= b THEN a ELSE b

\* a recognition starts now: the interval since the previous start is noted
NoteStart ==
    /\ last_start' = now
    /\ min_gap' = IF last_start = 0 THEN min_gap ELSE Min(min_gap, now - last_start)

\* setup_provider is called while no call of recognize_image is under way
SetupProvider ==
    /\ \A c \in Callers : caller_pc[c] = "idle"
    /\ \E provider_name \in ProviderNames \cup {"OtherOCR"} :
       \E config \in ConfigsFor(IF provider_name \in ProviderNames
                                THEN ConstructorKeys(provider_name) ELSE {}) :
       \E qps_limit \in QpsValues \cup {QpsNone} :
           LET r == setup_provider(current_provider, provider_name, config, qps_limit)
               installed == /\ provider_name \in ProviderNames
                            /\ \A key \in ConstructorKeys(provider_name) :
                                   config[key] # Absent
           IN  /\ current_provider' = r.provider
               /\ setup_result' = r.result
               /\ IF installed
                  THEN /\ qps_requested' = IF qps_limit # QpsNone THEN qps_limit
                                           ELSE get_qps_limit(provider_name)
                       /\ last_start' = 0
                       /\ min_gap' = TicksPerSecond
                  ELSE UNCHANGED <<qps_requested, last_start, min_gap>>
    /\ UNCHANGED <<request_lock, now, caller_pc, wake, rcVars, tkVars,
                   fpVars, wkVars, clVars>>

\* OcrService.recognize_image, up to the provider's recognize_image
CallRecognize(c) ==
    /\ caller_pc[c] = "idle"
    /\ current_provider.name # "None"
    /\ IF current_provider.name = "BaiduOCR"
       THEN /\ caller_pc' = [caller_pc EXCEPT ![c] = "acquire"]
            /\ UNCHANGED <<last_start, min_gap>>
       ELSE /\ caller_pc' = [caller_pc EXCEPT ![c] = "recognizing"]
            /\ NoteStart
    /\ UNCHANGED <<current_provider, request_lock, now, wake, qps_requested,
                   setup_result, rcVars, tkVars,
                   fpVars, wkVars, clVars>>

\* mutant of AcquireLock: the remaining interval is not waited out
AcquireLock_NoWait(c) ==
    /\ caller_pc[c] = "acquire"
    /\ request_lock = 0
    /\ request_lock' = c
    /\ wake' = [wake EXCEPT ![c] = now]
    /\ caller_pc' = [caller_pc EXCEPT ![c] = "in_lock"]
    /\ UNCHANGED <<current_provider, now, last_start, min_gap, qps_requested,
                   setup_result, rcVars, tkVars,
                   fpVars, wkVars, clVars>>

\* BaiduOcrProvider.recognize_image: with self.request_lock, up to time.sleep
AcquireLock(c) ==
    /\ caller_pc[c] = "acquire"
    /\ request_lock = 0
    /\ request_lock' = c
    /\ LET current_time == now
           time_since_last_request == current_time - current_provider.last_request_time
           min_interval == MinInterval(current_provider.qps_limit)
       IN  wake' = [wake EXCEPT ![c] =
                       IF time_since_last_request < min_interval
                       THEN now + (min_interval - time_since_last_request)
                       ELSE now]
    /\ caller_pc' = [caller_pc EXCEPT ![c] = "in_lock"]
    /\ UNCHANGED <<current_provider, now, last_start, min_gap, qps_requested,
                   setup_result, rcVars, tkVars,
                   fpVars, wkVars, clVars>>

\* time.sleep has returned: self.last_request_time = time.time(), the lock is
\* released and the recognition proper starts
StampAndRelease(c) ==
    /\ caller_pc[c] = "in_lock"
    /\ now >= wake[c]
    /\ current_provider' = [current_provider EXCEPT !.last_request_time = now]
    /\ request_lock' = 0
    /\ wake' = [wake EXCEPT ![c] = 0]
    /\ caller_pc' = [caller_pc EXCEPT ![c] = "recognizing"]
    /\ NoteStart
    /\ UNCHANGED <<now, qps_requested, setup_result, rcVars, tkVars,
                   fpVars, wkVars, clVars>>

\* the provider's recognize_image returns or raises
FinishRecognize(c) ==
    /\ caller_pc[c] = "recognizing"
    /\ caller_pc' = [caller_pc EXCEPT ![c] = "idle"]
    /\ UNCHANGED <<current_provider, request_lock, now, wake, last_start, min_gap,
                   qps_requested, setup_result, rcVars, tkVars,
                   fpVars, wkVars, clVars>>

Tick ==
    /\ now < MaxTime
    /\ now' = now + 1
    /\ UNCHANGED <<current_provider, request_lock, caller_pc, wake, last_start,
                   min_gap, qps_requested, setup_result, rcVars, tkVars,
                   fpVars, wkVars, clVars>>

ThrottleInit == FpIdle /\ OcrIdle /\ WkIdle /\ ClIdle

ThrottleNext ==
    \/ SetupProvider
    \/ \E c \in Callers : CallRecognize(c)
    \/ \E c \in Callers : AcquireLock(c)
    \/ \E c \in Callers : StampAndRelease(c)
    \/ \E c \in Callers : FinishRecognize(c)
    \/ Tick

SpecThrottle == ThrottleInit /\ [][ThrottleNext]_vars

----------------------------------------------------------------------------
(* Claims about the providers' rate limit                                  *)

\* C6 (as claimed): for each of the three provider variants set up through
\* setup_provider with QPS limit q, any two recognition calls through that
\* provider instance start at least 1/q seconds apart.
C6_MinIntervalEveryProvider ==
    current_provider.name # "None" => min_gap >= MinInterval(qps_requested)

\* the same for the token-based provider alone
BaiduMinInterval ==
    current_provider.name = "BaiduOCR" => min_gap >= MinInterval(qps_requested)

----------------------------------------------------------------------------
(* Claims about setup_provider and the token-based provider's throttle     *)

\* the credential fields an installed provider instance was constructed from
\* are non-empty
CredentialsPresent(provider) ==
    CASE provider.name = "BaiduOCR" ->
             provider.api_key # "" /\ provider.secret_key # ""
      [] provider.name = "TencentOCR" ->
             provider.secret_id # "" /\ provider.secret_key # ""
      [] provider.name = "AliyunOCR" ->
             provider.access_key_id # "" /\ provider.access_key_secret # ""
      [] OTHER -> TRUE

\* C14 (as claimed): after any sequence of setup_provider calls the current
\* provider is unset or was constructed from credentials that pass
\* validate_config (all required fields non-empty).
C14_CurrentProviderValidated ==
    current_provider.name # "None" => CredentialsPresent(current_provider)

\* C17: on one BaiduOcrProvider shared by concurrent callers at most one
\* caller is inside the throttle critical section, it holds request_lock,
\* and the instants recorded in last_request_time by successive calls are
\* at least 1/q seconds apart.
C17_ThrottleSerialized ==
    current_provider.name = "BaiduOCR" =>
        /\ Cardinality({c \in Callers : caller_pc[c] = "in_lock"}) <= 1
        /\ \A c \in Callers : caller_pc[c] = "in_lock" <=> request_lock = c
        /\ last_start # 0 => last_start = current_provider.last_request_time
        /\ min_gap >= TicksPerSecond \div current_provider.qps_limit

\* a second caller has waited out the interval behind the first and recorded
\* its instant exactly 1/q after it, while a third call is held at the lock
C17_Witness ==
    /\ current_provider.name = "BaiduOCR"
    /\ min_gap = TicksPerSecond \div current_provider.qps_limit
    /\ current_provider.qps_limit = 2
    /\ \E c, d \in Callers :
           /\ caller_pc[c] = "in_lock" /\ wake[c] > now
           /\ caller_pc[d] = "acquire"

----------------------------------------------------------------------------
(* ocr_service.py: the texts of the exceptions                             *)

\* the literal texts of ocr_service.py: the exceptions raised, the values
\* returned for an empty recognition, and the words the handler of lines
\* 264-269 looks for
OcrText ==
    [ \* "未设置OCR提供者"
     NoProviderText |->
        <<"u672A", "u8BBE", "u7F6E", "O", "C", "R", "u63D0", "u4F9B",
          "u8005">>,
     \* "图片文件不存在: "
     NotExistPrefix |->
        <<"u56FE", "u7247", "u6587", "u4EF6", "u4E0D", "u5B58", "u5728",
          ":", " ">>,
     \* "路径不是文件: "
     NotFilePrefix |->
        <<"u8DEF", "u5F84", "u4E0D", "u662F", "u6587", "u4EF6", ":", " ">>,
     \* "图片文件过大: "
     TooLargePrefix |->
        <<"u56FE", "u7247", "u6587", "u4EF6", "u8FC7", "u5927", ":", " ">>,
     \* "MB，请使用小于8MB的图片"
     TooLargeSuffix |->
        <<"M", "B", "uFF0C", "u8BF7", "u4F7F", "u7528", "u5C0F", "u4E8E",
          "8", "M", "B", "u7684", "u56FE", "u7247">>,
     \* "不支持的图片格式: "
     UnsupportedPrefix |->
        <<"u4E0D", "u652F", "u6301", "u7684", "u56FE", "u7247", "u683C",
          "u5F0F", ":", " ">>,
     \* "，百度OCR支持的格式: "
     BaiduFormatsText |->
        <<"uFF0C", "u767E", "u5EA6", "O", "C", "R", "u652F", "u6301",
          "u7684", "u683C", "u5F0F", ":", " ">>,
     \* "，支持的格式: "
     TencentFormatsText |->
        <<"uFF0C", "u652F", "u6301", "u7684", "u683C", "u5F0F", ":", " ">>,
     \* "图片实际格式 "
     ActualFormatPrefix |->
        <<"u56FE", "u7247", "u5B9E", "u9645", "u683C", "u5F0F", " ">>,
     \* " 不被支持，百度OCR支持的格式: JPEG, PNG, BMP"
     ActualFormatSuffix |->
        <<" ", "u4E0D", "u88AB", "u652F", "u6301", "uFF0C", "u767E",
          "u5EA6", "O", "C", "R", "u652F", "u6301", "u7684", "u683C",
          "u5F0F", ":", " ", "J", "P", "E", "G", ",", " ", "P", "N", "G",
          ",", " ", "B", "M", "P">>,
     \* "图片文件为空"
     EmptyImageText |->
        <<"u56FE", "u7247", "u6587", "u4EF6", "u4E3A", "u7A7A">>,
     \* "图片base64编码后过大: "
     EncodedTooLargePrefix |->
        <<"u56FE", "u7247", "b", "a", "s", "e", "6", "4", "u7F16", "u7801",
          "u540E", "u8FC7", "u5927", ":", " ">>,
     \* "读取图片文件失败: "
     ReadFailedPrefix |->
        <<"u8BFB", "u53D6", "u56FE", "u7247", "u6587", "u4EF6", "u5931",
          "u8D25", ":", " ">>,
     \* "获取访问令牌失败: "
     TokenFailedPrefix |->
        <<"u83B7", "u53D6", "u8BBF", "u95EE", "u4EE4", "u724C", "u5931",
          "u8D25", ":", " ">>,
     \* "百度OCR认证失败: "
     AuthFailedPrefix |->
        <<"u767E", "u5EA6", "O", "C", "R", "u8BA4", "u8BC1", "u5931",
          "u8D25", ":", " ">>,
     \* "OCR请求超时，请检查网络连接"
     TimeoutText |->
        <<"O", "C", "R", "u8BF7", "u6C42", "u8D85", "u65F6", "uFF0C",
          "u8BF7", "u68C0", "u67E5", "u7F51", "u7EDC", "u8FDE", "u63A5">>,
     \* "网络连接错误，请检查网络设置"
     ConnectionText |->
        <<"u7F51", "u7EDC", "u8FDE", "u63A5", "u9519", "u8BEF", "uFF0C",
          "u8BF7", "u68C0", "u67E5", "u7F51", "u7EDC", "u8BBE", "u7F6E">>,
     \* "网络请求失败: "
     RequestFailedPrefix |->
        <<"u7F51", "u7EDC", "u8BF7", "u6C42", "u5931", "u8D25", ":", " ">>,
     \* "认证失败，请检查API Key和Secret Key"
     Error4Text |->
        <<"u8BA4", "u8BC1", "u5931", "u8D25", "uFF0C", "u8BF7", "u68C0",
          "u67E5", "A", "P", "I", " ", "K", "e", "y", "u548C", "S", "e",
          "c", "r", "e", "t", " ", "K", "e", "y">>,
     \* "每天请求量超限额，请升级套餐或明天再试"
     Error17Text |->
        <<"u6BCF", "u5929", "u8BF7", "u6C42", "u91CF", "u8D85", "u9650",
          "u989D", "uFF0C", "u8BF7", "u5347", "u7EA7", "u5957", "u9910",
          "u6216", "u660E", "u5929", "u518D", "u8BD5">>,
     \* "QPS超限，请降低请求频率。当前限制: "
     Error18Prefix |->
        <<"Q", "P", "S", "u8D85", "u9650", "uFF0C", "u8BF7", "u964D",
          "u4F4E", "u8BF7", "u6C42", "u9891", "u7387", "u3002", "u5F53",
          "u524D", "u9650", "u5236", ":", " ">>,
     \* " QPS"
     Error18Suffix |->
        <<" ", "Q", "P", "S">>,
     \* "请求总量超限，请升级套餐"
     Error19Text |->
        <<"u8BF7", "u6C42", "u603B", "u91CF", "u8D85", "u9650", "uFF0C",
          "u8BF7", "u5347", "u7EA7", "u5957", "u9910">>,
     \* "无效的access_token"
     Error100Text |->
        <<"u65E0", "u6548", "u7684", "a", "c", "c", "e", "s", "s", "_",
          "t", "o", "k", "e", "n">>,
     \* "Access Token失效"
     Error110Text |->
        <<"A", "c", "c", "e", "s", "s", " ", "T", "o", "k", "e", "n",
          "u5931", "u6548">>,
     \* "Access token过期"
     Error111Text |->
        <<"A", "c", "c", "e", "s", "s", " ", "t", "o", "k", "e", "n",
          "u8FC7", "u671F">>,
     \* "参数错误，请检查图片格式"
     Error216100Text |->
        <<"u53C2", "u6570", "u9519", "u8BEF", "uFF0C", "u8BF7", "u68C0",
          "u67E5", "u56FE", "u7247", "u683C", "u5F0F">>,
     \* "图片为空"
     Error216201Text |->
        <<"u56FE", "u7247", "u4E3A", "u7A7A">>,
     \* "上传的图片格式错误或尺寸不符合要求（长宽不超过4096像素）"
     Error216202Text |->
        <<"u4E0A", "u4F20", "u7684", "u56FE", "u7247", "u683C", "u5F0F",
          "u9519", "u8BEF", "u6216", "u5C3A", "u5BF8", "u4E0D", "u7B26",
          "u5408", "u8981", "u6C42", "uFF08", "u957F", "u5BBD", "u4E0D",
          "u8D85", "u8FC7", "4", "0", "9", "6", "u50CF", "u7D20", "uFF09">>,
     \* "上传的图片大小错误（base64编码后不超过10MB）"
     Error216203Text |->
        <<"u4E0A", "u4F20", "u7684", "u56FE", "u7247", "u5927", "u5C0F",
          "u9519", "u8BEF", "uFF08", "b", "a", "s", "e", "6", "4", "u7F16",
          "u7801", "u540E", "u4E0D", "u8D85", "u8FC7", "1", "0", "M", "B",
          "uFF09">>,
     \* "识别错误，请检查图片质量"
     Error216630Text |->
        <<"u8BC6", "u522B", "u9519", "u8BEF", "uFF0C", "u8BF7", "u68C0",
          "u67E5", "u56FE", "u7247", "u8D28", "u91CF">>,
     \* "内部服务器错误"
     Error282000Text |->
        <<"u5185", "u90E8", "u670D", "u52A1", "u5668", "u9519", "u8BEF">>,
     \* "百度OCR API错误: "
     UnmappedPrefix |->
        <<"u767E", "u5EA6", "O", "C", "R", " ", "A", "P", "I", "u9519",
          "u8BEF", ":", " ">>,
     \* "未知错误"
     UnknownErrorText |->
        <<"u672A", "u77E5", "u9519", "u8BEF">>,
     \* "未能识别出文字内容，请检查图片清晰度"
     NoWordsResultText |->
        <<"u672A", "u80FD", "u8BC6", "u522B", "u51FA", "u6587", "u5B57",
          "u5185", "u5BB9", "uFF0C", "u8BF7", "u68C0", "u67E5", "u56FE",
          "u7247", "u6E05", "u6670", "u5EA6">>,
     \* "未能识别出有效文字"
     NoWordsText |->
        <<"u672A", "u80FD", "u8BC6", "u522B", "u51FA", "u6709", "u6548",
          "u6587", "u5B57">>,
     \* "百度OCR识别失败: "
     BaiduFailedPrefix |->
        <<"u767E", "u5EA6", "O", "C", "R", "u8BC6", "u522B", "u5931",
          "u8D25", ":", " ">>,
     \* "百度OCR识别失败"
     BaiduFailedNeedle |->
        <<"u767E", "u5EA6", "O", "C", "R", "u8BC6", "u522B", "u5931",
          "u8D25">>,
     \* "图片文件"
     ImageFileNeedle |->
        <<"u56FE", "u7247", "u6587", "u4EF6">>,
     \* "网络"
     NetworkNeedle |->
        <<"u7F51", "u7EDC">>,
     \* "API"
     ApiNeedle |->
        <<"A", "P", "I">>,
     \* "腾讯云OCR API调用失败: "
     TencentApiFailedPrefix |->
        <<"u817E", "u8BAF", "u4E91", "O", "C", "R", " ", "A", "P", "I",
          "u8C03", "u7528", "u5931", "u8D25", ":", " ">>,
     \* "腾讯云OCR识别失败: "
     TencentFailedPrefix |->
        <<"u817E", "u8BAF", "u4E91", "O", "C", "R", "u8BC6", "u522B",
          "u5931", "u8D25", ":", " ">>,
     \* "阿里云OCR识别失败: "
     AliyunFailedPrefix |->
        <<"u963F", "u91CC", "u4E91", "O", "C", "R", "u8BC6", "u522B",
          "u5931", "u8D25", ":", " ">>]

\* the literal texts of OcrWorker.run
WorkerText ==
    [ \* "处理文件 "
     ProcessFilePrefix |->
        <<"u5904", "u7406", "u6587", "u4EF6", " ">>,
     \* " 失败: "
     ProcessFileSuffix |->
        <<" ", "u5931", "u8D25", ":", " ">>,
     \* "处理过程中发生错误: "
     ErrorSignalPrefix |->
        <<"u5904", "u7406", "u8FC7", "u7A0B", "u4E2D", "u53D1", "u751F",
          "u9519", "u8BEF", ":", " ">>,
     \* "文件不存在: "
     FileMissingPrefix |->
        <<"u6587", "u4EF6", "u4E0D", "u5B58", "u5728", ":", " ">>]

\* the words _get_error_suggestion looks for in the lower-cased message
SuggestionNeedle ==
    [ \* "图片文件不存在"
     NotExistNeedle |->
        <<"u56FE", "u7247", "u6587", "u4EF6", "u4E0D", "u5B58", "u5728">>,
     \* "路径不是文件"
     NotFileNeedle |->
        <<"u8DEF", "u5F84", "u4E0D", "u662F", "u6587", "u4EF6">>,
     \* "不支持的图片格式"
     UnsupportedNeedle |->
        <<"u4E0D", "u652F", "u6301", "u7684", "u56FE", "u7247", "u683C",
          "u5F0F">>,
     \* "图片文件为空"
     EmptyImageNeedle |->
        <<"u56FE", "u7247", "u6587", "u4EF6", "u4E3A", "u7A7A">>,
     \* "图片文件过大"
     TooLargeNeedle |->
        <<"u56FE", "u7247", "u6587", "u4EF6", "u8FC7", "u5927">>,
     \* "读取图片文件失败"
     ReadFailedNeedle |->
        <<"u8BFB", "u53D6", "u56FE", "u7247", "u6587", "u4EF6", "u5931",
          "u8D25">>,
     \* "认证失败"
     AuthFailedNeedle |->
        <<"u8BA4", "u8BC1", "u5931", "u8D25">>,
     \* "api key"
     ApiKeyNeedle |->
        <<"a", "p", "i", " ", "k", "e", "y">>,
     \* "qps超限"
     QpsNeedle |->
        <<"q", "p", "s", "u8D85", "u9650">>,
     \* "网络"
     NetworkNeedle |->
        <<"u7F51", "u7EDC">>,
     \* "连接"
     ConnectionNeedle |->
        <<"u8FDE", "u63A5">>,
     \* "超时"
     TimeoutNeedle |->
        <<"u8D85", "u65F6">>,
     \* "未能识别出文字"
     NoTextNeedle |->
        <<"u672A", "u80FD", "u8BC6", "u522B", "u51FA", "u6587", "u5B57">>]

\* str(e) of an exception raised by a library (requests, an SDK, open):
\* the program does not look into it
RawText == <<"r", "a", "w">>

\* the same of an exception the network caused, and of one that carries the
\* error the API answered
RawNetworkText == <<"n", "e", "t">>
RawApiText == <<"s", "d", "k">>

RawRequestText(cause) ==
    IF cause = "network" THEN RawNetworkText ELSE RawApiText

UpperLetters ==
    <<"A", "B", "C", "D", "E", "F", "G", "H", "I", "J", "K", "L", "M",
      "N", "O", "P", "Q", "R", "S", "T", "U", "V", "W", "X", "Y", "Z">>

LowerLetters ==
    <<"a", "b", "c", "d", "e", "f", "g", "h", "i", "j", "k", "l", "m",
      "n", "o", "p", "q", "r", "s", "t", "u", "v", "w", "x", "y", "z">>

LowerChar(c) ==
    IF \E k \in 1..26 : UpperLetters[k] = c
    THEN LowerLetters[CHOOSE k \in 1..26 : UpperLetters[k] = c]
    ELSE c

\* str.lower()
Lower(text) == [k \in 1..Len(text) |-> LowerChar(text[k])]

\* needle in text
Contains(text, needle) ==
    \E i \in 1..(Len(text) - Len(needle) + 1) : StartsWithAt(text, i, needle)

\* f"{n / (1024*1024):.2f}": n bytes in MB, rounded to two decimals
FormatMB(n) ==
    IntToStr(((n * 100 + 524288) \div 1048576) \div 100) \o <<".">>
        \o IntToStr((((n * 100 + 524288) \div 1048576) % 100) \div 10)
        \o IntToStr(((n * 100 + 524288) \div 1048576) % 10)

----------------------------------------------------------------------------
(* ocr_service.py: the image checks of recognize_image                     *)

\* 8 * 1024 * 1024, the limit of the raw file size
MaxBytes == 8 * 1024 * 1024

\* 10 * 1024 * 1024, the limit of the base64 text
MaxEncodedBytes == 10 * 1024 * 1024

JpgExt == <<".", "j", "p", "g">>
GifExt == <<".", "G", "I", "F">>
TxtExt == <<".", "t", "x", "t">>

\* the files recognize_image is called for: a missing path, a directory,
\* and regular files that are empty, small, at the size limit and over it,
\* with an extension every provider takes, one only Tencent takes (in upper
\* case) and one no provider takes
Images ==
    {NoImage, [exists |-> TRUE, isfile |-> FALSE, size |-> 0, ext |-> <<>>]}
    \cup [exists : {TRUE}, isfile : {TRUE},
          size : {0, 1, MaxBytes, MaxBytes + 1},
          ext : {JpgExt, GifExt, TxtExt}]

\* the path of the image: one directory, one stem
image_path(image) == <<"d", "/", "a">> \o image.ext

\* valid_extensions of each provider's recognize_image; AliyunOcrProvider
\* has none
valid_extensions(provider_name) ==
    CASE provider_name = "BaiduOCR" ->
             {JpgExt, <<".", "j", "p", "e", "g">>, <<".", "p", "n", "g">>,
              <<".", "b", "m", "p">>}
      [] provider_name = "TencentOCR" ->
             {JpgExt, <<".", "j", "p", "e", "g">>, <<".", "p", "n", "g">>,
              <<".", "b", "m", "p">>, <<".", "g", "i", "f">>,
              <<".", "w", "e", "b", "p">>}

\* ', '.join(valid_extensions): a set is iterated in no defined order; two
\* of the orders
JoinedExtensions(provider_name) ==
    IF provider_name = "BaiduOCR"
    THEN {<<".", "j", "p", "g", ",", " ", ".", "j", "p", "e", "g", ",", " ",
            ".", "p", "n", "g", ",", " ", ".", "b", "m", "p">>,
          <<".", "b", "m", "p", ",", " ", ".", "p", "n", "g", ",", " ",
            ".", "j", "p", "e", "g", ",", " ", ".", "j", "p", "g">>}
    ELSE {<<".", "j", "p", "g", ",", " ", ".", "j", "p", "e", "g", ",", " ",
            ".", "p", "n", "g", ",", " ", ".", "b", "m", "p", ",", " ",
            ".", "g", "i", "f", ",", " ", ".", "w", "e", "b", "p">>,
          <<".", "w", "e", "b", "p", ",", " ", ".", "g", "i", "f", ",", " ",
            ".", "b", "m", "p", ",", " ", ".", "p", "n", "g", ",", " ",
            ".", "j", "p", "e", "g", ",", " ", ".", "j", "p", "g">>}

FormatsText(provider_name) ==
    IF provider_name = "BaiduOCR" THEN OcrText.BaiduFormatsText ELSE OcrText.TencentFormatsText

\* the checks of lines 115-131 (Baidu) and 288-303 (Tencent), in the order
\* of the code: the text of the exception raised, <<>> when all pass
ImageCheck(provider_name, image, listed) ==
    IF ~image.exists THEN OcrText.NotExistPrefix \o image_path(image)
    ELSE IF ~image.isfile THEN OcrText.NotFilePrefix \o image_path(image)
    ELSE IF image.size > MaxBytes
    THEN OcrText.TooLargePrefix \o FormatMB(image.size) \o OcrText.TooLargeSuffix
    ELSE IF Lower(image.ext) \notin valid_extensions(provider_name)
    THEN OcrText.UnsupportedPrefix \o Lower(image.ext) \o FormatsText(provider_name) \o listed
    ELSE <<>>

\* len(base64.b64encode(image_data))
Base64Length(size) == 4 * ((size + 2) \div 3)

\* the handler of lines 264-269: an exception whose text holds one of four
\* needles is raised again as it is, any other is wrapped
BaiduRaise(text) ==
    IF \/ Contains(text, OcrText.BaiduFailedNeedle)
       \/ Contains(text, OcrText.ImageFileNeedle)
       \/ Contains(text, OcrText.NetworkNeedle)
       \/ Contains(text, OcrText.ApiNeedle)
    THEN text
    ELSE OcrText.BaiduFailedPrefix \o text

\* the handler of line 352
TencentRaise(text) == OcrText.TencentFailedPrefix \o text

\* the handler of line 402
AliyunRaise(text) == OcrText.AliyunFailedPrefix \o text

ProviderRaise(provider_name, text) ==
    CASE provider_name = "BaiduOCR"   -> BaiduRaise(text)
      [] provider_name = "TencentOCR" -> TencentRaise(text)
      [] provider_name = "AliyunOCR"  -> AliyunRaise(text)

\* the error codes of error_mapping, and one that is not in it
ErrorCodes == {4, 17, 18, 19, 100, 110, 111, 216100, 216201, 216202, 216203,
               216630, 282000}

UnmappedCode == 1

\* error_mapping.get(error_code, f"百度OCR API错误: {error_msg}")
error_desc(error_code, qps_limit, error_msg) ==
    CASE error_code = 4      -> OcrText.Error4Text
      [] error_code = 17     -> OcrText.Error17Text
      [] error_code = 18     -> OcrText.Error18Prefix \o IntToStr(qps_limit) \o OcrText.Error18Suffix
      [] error_code = 19     -> OcrText.Error19Text
      [] error_code = 100    -> OcrText.Error100Text
      [] error_code = 110    -> OcrText.Error110Text
      [] error_code = 111    -> OcrText.Error111Text
      [] error_code = 216100 -> OcrText.Error216100Text
      [] error_code = 216201 -> OcrText.Error216201Text
      [] error_code = 216202 -> OcrText.Error216202Text
      [] error_code = 216203 -> OcrText.Error216203Text
      [] error_code = 216630 -> OcrText.Error216630Text
      [] error_code = 282000 -> OcrText.Error282000Text
      [] OTHER               -> OcrText.UnmappedPrefix \o error_msg

----------------------------------------------------------------------------
(* ocr_service.py: BaiduOcrProvider.get_access_token                       *)

\* the buffer taken off the token's lifetime, in seconds
SafetyMargin == 300

\* data.get("expires_in", 2592000)
DefaultExpiresIn == 2592000

\* the response carries no "expires_in"
NoExpiresIn == -1

\* the lifetimes the token endpoint grants: below the buffer, just above
\* it, and none stated
ExpiresInValues == {299, 301, NoExpiresIn}

\* what requests.post(url, params=params) of get_access_token comes to: a
\* body with "access_token", an exception, or a body without "access_token"
TokenResponses ==
    [granted : {TRUE}, expires_in : ExpiresInValues, raised : {FALSE}]
    \cup [granted : {FALSE}, expires_in : {NoExpiresIn}, raised : BOOLEAN]

\* mutant of TokenCached: a token once cached is used whatever its expiry
TokenCached_IgnoreExpiry(provider, t) ==
    provider.access_token # 0

\* if self.access_token and time.time() < self.token_expire_time; a token is
\* a positive number, 0 is None
TokenCached(provider, t) ==
    provider.access_token # 0 /\ t < provider.token_expire_time

\* time.time() + data.get("expires_in", 2592000) - 300, in ticks
ExpireTime(t, expires_in) ==
    t + ((IF expires_in = NoExpiresIn THEN DefaultExpiresIn ELSE expires_in)
             - SafetyMargin) * TicksPerSecond

\* the assignments of lines 85-87
StoreToken(provider, token, t, expires_in) ==
    [provider EXCEPT !.access_token = token,
                     !.token_expire_time = ExpireTime(t, expires_in)]

\* the entry an exchange leaves in the log: the caller, the instant the
\* request was sent, the token granted (0 when the exchange failed) and its
\* advertised lifetime, and the token and expiry the provider held when the
\* request was sent
Exchange(c, t, token, expires_in, held, held_expire) ==
    [caller |-> c, at |-> t, token |-> token, expires_in |-> expires_in,
     held |-> held, held_expire |-> held_expire]

\* f"百度OCR认证失败: {str(e)}", e being the exception of requests or the one
\* of line 90, f"获取访问令牌失败: {data}"
AuthFailedText(response) ==
    OcrText.AuthFailedPrefix \o (IF response.raised THEN RawNetworkText
                         ELSE OcrText.TokenFailedPrefix \o RawApiText)

----------------------------------------------------------------------------
(* ocr_service.py: recognize_image, one call after the other               *)

\* the calls one scenario makes
MaxCalls == 2

\* the words a successful recognition returns
RecognizedText == <<"o", "k">>

\* the providers a scenario starts with: none, or one that setup_provider
\* installed from credentials that validate
ReadyProviders ==
    {NoProvider}
    \cup {setup_provider(NoProvider, "BaiduOCR",
              [key \in ConfigKeys |->
                  IF key \in ConstructorKeys("BaiduOCR") THEN "k" ELSE Absent],
              qps_limit).provider : qps_limit \in {1, 2}}
    \cup {setup_provider(NoProvider, provider_name,
              [key \in ConfigKeys |->
                  IF key \in ConstructorKeys(provider_name) THEN "k" ELSE Absent],
              QpsNone).provider : provider_name \in {"TencentOCR", "AliyunOCR"}}

RecognizeInit ==
    /\ FpIdle /\ WkIdle /\ ClIdle
    /\ current_provider \in ReadyProviders
    /\ request_lock = 0
    /\ now = BootTime
    /\ caller_pc = [c \in Callers |-> "idle"]
    /\ wake = [c \in Callers |-> 0]
    /\ last_start = 0
    /\ min_gap = TicksPerSecond
    /\ qps_requested = 0
    /\ setup_result = TRUE
    /\ rc_pc = "ready"
    /\ rc_image = NoImage
    /\ rc_calls = 0
    /\ rc_sent = FALSE
    /\ rc_outcome = NoOutcome
    /\ rc_stamp_before = 0
    /\ rc_waited = 0
    /\ rc_cause = "none"
    /\ TkIdle

\* the call ends with an exception of the given text
Raise(text) ==
    /\ rc_pc' = "done"
    /\ rc_outcome' = [kind |-> "raised", text |-> text]

\* the call ends with the given return value
Return(text) ==
    /\ rc_pc' = "done"
    /\ rc_outcome' = [kind |-> "returned", text |-> text]

\* OcrService.recognize_image, lines 476-482
RcCall ==
    /\ rc_pc = "ready"
    /\ rc_calls < MaxCalls
    /\ \E image \in Images :
        /\ rc_image' = image
        /\ IF current_provider.name = "None"
           THEN Raise(OcrText.NoProviderText)
           ELSE IF ~image.exists
           THEN Raise(OcrText.NotExistPrefix \o image_path(image))
           ELSE /\ rc_pc' = CASE current_provider.name = "BaiduOCR"   -> "throttle"
                              [] current_provider.name = "TencentOCR" -> "preflight"
                              [] current_provider.name = "AliyunOCR"  -> "read"
                /\ rc_outcome' = NoOutcome
    /\ rc_calls' = rc_calls + 1
    /\ rc_sent' = FALSE
    /\ rc_waited' = 0
    /\ rc_cause' = "none"
    /\ rc_stamp_before' = IF current_provider.name = "BaiduOCR"
                          THEN current_provider.last_request_time ELSE 0
    /\ UNCHANGED <<current_provider, request_lock, now, caller_pc, wake,
                   last_start, min_gap, qps_requested, setup_result, tkVars,
                   fpVars, wkVars, clVars>>

\* BaiduOcrProvider.recognize_image, lines 100-110: the only caller takes the
\* lock, sleeps out what is left of the interval and records the instant
RcThrottle ==
    /\ rc_pc = "throttle"
    /\ LET time_since_last_request == now - current_provider.last_request_time
           min_interval == MinInterval(current_provider.qps_limit)
           sleep_time == IF time_since_last_request < min_interval
                         THEN min_interval - time_since_last_request ELSE 0
       IN  /\ now' = now + sleep_time
           /\ rc_waited' = sleep_time
           /\ current_provider' =
                  [current_provider EXCEPT !.last_request_time = now + sleep_time]
    /\ rc_pc' = "preflight"
    /\ UNCHANGED <<request_lock, caller_pc, wake, last_start, min_gap,
                   qps_requested, setup_result, rc_image, rc_calls, rc_sent,
                   rc_outcome, rc_stamp_before, rc_cause, tkVars,
                   fpVars, wkVars, clVars>>

\* the image checks of BaiduOcrProvider (lines 115-131) and
\* TencentOcrProvider (lines 288-303)
RcPreflight ==
    /\ rc_pc = "preflight"
    /\ \E listed \in JoinedExtensions(current_provider.name) :
           IF ImageCheck(current_provider.name, rc_image, listed) # <<>>
           THEN Raise(ProviderRaise(current_provider.name,
                    ImageCheck(current_provider.name, rc_image, listed)))
           ELSE /\ rc_pc' = IF current_provider.name = "BaiduOCR"
                            THEN "sniff" ELSE "read"
                /\ UNCHANGED rc_outcome
    /\ UNCHANGED <<current_provider, request_lock, now, caller_pc, wake,
                   last_start, min_gap, qps_requested, setup_result, rc_image,
                   rc_calls, rc_sent, rc_stamp_before, rc_waited, rc_cause,
                   tkVars, fpVars, wkVars, clVars>>

\* BaiduOcrProvider, lines 134-180: PIL opens the file; the format it finds
\* is one of JPEG, PNG, BMP or it is not (the content of the file is not
\* modelled)
RcSniff ==
    /\ rc_pc = "sniff"
    /\ \E format_ok \in BOOLEAN :
           IF format_ok
           THEN /\ rc_pc' = "read"
                /\ UNCHANGED rc_outcome
           ELSE Raise(BaiduRaise(OcrText.ActualFormatPrefix \o <<"G", "I", "F">>
                                     \o OcrText.ActualFormatSuffix))
    /\ UNCHANGED <<current_provider, request_lock, now, caller_pc, wake,
                   last_start, min_gap, qps_requested, setup_result, rc_image,
                   rc_calls, rc_sent, rc_stamp_before, rc_waited, rc_cause,
                   tkVars, fpVars, wkVars, clVars>>

\* the file is read and encoded: BaiduOcrProvider lines 183-199 (an empty
\* file, a base64 text over 10MB and an IOError are refused),
\* TencentOcrProvider lines 306-316 and AliyunOcrProvider lines 372-374
\* (open() of a directory raises)
RcRead ==
    /\ rc_pc = "read"
    /\ \E io_ok \in BOOLEAN :
           CASE current_provider.name = "BaiduOCR" ->
                    IF ~io_ok
                    THEN Raise(BaiduRaise(OcrText.ReadFailedPrefix \o RawText))
                    ELSE IF rc_image.size = 0
                    THEN Raise(BaiduRaise(OcrText.EmptyImageText))
                    ELSE IF Base64Length(rc_image.size) > MaxEncodedBytes
                    THEN Raise(BaiduRaise(OcrText.EncodedTooLargePrefix
                                 \o FormatMB(Base64Length(rc_image.size))
                                 \o <<"M", "B">>))
                    ELSE rc_pc' = "token" /\ UNCHANGED rc_outcome
             [] current_provider.name = "TencentOCR" ->
                    IF ~io_ok
                    THEN Raise(TencentRaise(OcrText.ReadFailedPrefix \o RawText))
                    ELSE IF rc_image.size = 0
                    THEN Raise(TencentRaise(OcrText.EmptyImageText))
                    ELSE rc_pc' = "request" /\ UNCHANGED rc_outcome
             [] current_provider.name = "AliyunOCR" ->
                    IF ~io_ok \/ ~rc_image.isfile
                    THEN Raise(AliyunRaise(RawText))
                    ELSE rc_pc' = "request" /\ UNCHANGED rc_outcome
    /\ UNCHANGED <<current_provider, request_lock, now, caller_pc, wake,
                   last_start, min_gap, qps_requested, setup_result, rc_image,
                   rc_calls, rc_sent, rc_stamp_before, rc_waited, rc_cause,
                   tkVars, fpVars, wkVars, clVars>>

\* BaiduOcrProvider line 203: get_access_token, from its first line to its
\* return or raise
RcToken ==
    /\ rc_pc = "token"
    /\ IF TokenCached(current_provider, now)
       THEN /\ rc_pc' = "request"
            /\ UNCHANGED <<current_provider, rc_outcome, tk_log>>
       ELSE \E response \in TokenResponses :
              /\ tk_log' = Append(tk_log,
                     Exchange(1, now,
                         IF response.granted THEN Len(tk_log) + 1 ELSE 0,
                         response.expires_in,
                         current_provider.access_token,
                         current_provider.token_expire_time))
              /\ IF response.granted
                 THEN /\ current_provider' =
                             StoreToken(current_provider, Len(tk_log) + 1, now,
                                        response.expires_in)
                      /\ rc_pc' = "request"
                      /\ UNCHANGED rc_outcome
                 ELSE /\ Raise(BaiduRaise(AuthFailedText(response)))
                      /\ UNCHANGED current_provider
    /\ UNCHANGED <<request_lock, now, caller_pc, wake, last_start, min_gap,
                   qps_requested, setup_result, rc_image, rc_calls, rc_sent,
                   rc_stamp_before, rc_waited, rc_cause, tk_pc, tk_got,
                   tk_pending, tk_overlap, fpVars, wkVars, clVars>>

\* what the request of BaiduOcrProvider (lines 211-262) comes to: words, no
\* "words_result", an empty text, one of the three exceptions of requests,
\* or a body with an "error_code"
BaiduResults ==
    [kind : {"words", "no_words_result", "no_words", "timeout", "connection",
             "request"}, error_code : {0}]
    \cup [kind : {"error_code"}, error_code : ErrorCodes \cup {UnmappedCode}]

BaiduResultText(result, qps_limit) ==
    CASE result.kind = "words"           -> RecognizedText
      [] result.kind = "no_words_result" -> OcrText.NoWordsResultText
      [] result.kind = "no_words"        -> OcrText.NoWordsText
      [] result.kind = "timeout"         -> OcrText.TimeoutText
      [] result.kind = "connection"      -> OcrText.ConnectionText
      [] result.kind = "request"         -> OcrText.RequestFailedPrefix \o RawNetworkText
      [] result.kind = "error_code"      ->
             error_desc(result.error_code, qps_limit, RawApiText)

\* the request is sent and answered: BaiduOcrProvider lines 211-262,
\* TencentOcrProvider lines 319-350, AliyunOcrProvider lines 376-400.  The
\* cause of a failure is the network (no answer) or the API (an error answer)
RcRequest ==
    /\ rc_pc = "request"
    /\ rc_sent' = TRUE
    /\ CASE current_provider.name = "BaiduOCR" ->
                \E result \in BaiduResults :
                    /\ rc_cause' = IF result.kind \in {"timeout", "connection", "request"}
                                   THEN "network"
                                   ELSE IF result.kind = "error_code"
                                   THEN "api" ELSE "none"
                    /\ IF result.kind \in {"words", "no_words_result", "no_words"}
                       THEN Return(BaiduResultText(result, current_provider.qps_limit))
                       ELSE Raise(BaiduRaise(
                                BaiduResultText(result, current_provider.qps_limit)))
         [] current_provider.name = "TencentOCR" ->
                \E cause \in {"none", "network", "api"} :
                    /\ rc_cause' = cause
                    /\ IF cause = "none"
                       THEN Return(RecognizedText)
                       ELSE Raise(TencentRaise(OcrText.TencentApiFailedPrefix
                                                   \o RawRequestText(cause)))
         [] current_provider.name = "AliyunOCR" ->
                \E cause \in {"none", "network", "api"} :
                    /\ rc_cause' = cause
                    /\ IF cause = "none"
                       THEN Return(RecognizedText)
                       ELSE Raise(AliyunRaise(RawRequestText(cause)))
    /\ UNCHANGED <<current_provider, request_lock, now, caller_pc, wake,
                   last_start, min_gap, qps_requested, setup_result, rc_image,
                   rc_calls, rc_stamp_before, rc_waited, tkVars,
                   fpVars, wkVars, clVars>>

\* the caller has the outcome and drops it; it may call again
RcNext ==
    /\ rc_pc = "done"
    /\ rc_pc' = "ready"
    /\ rc_image' = NoImage
    /\ rc_sent' = FALSE
    /\ rc_outcome' = NoOutcome
    /\ rc_stamp_before' = 0
    /\ rc_waited' = 0
    /\ rc_cause' = "none"
    /\ UNCHANGED <<current_provider, request_lock, now, caller_pc, wake,
                   last_start, min_gap, qps_requested, setup_result,
                   rc_calls, tkVars, fpVars, wkVars, clVars>>

\* time passes between two calls
RcTick ==
    /\ rc_pc = "ready"
    /\ now < MaxTime
    /\ now' = now + 1
    /\ UNCHANGED <<current_provider, request_lock, caller_pc, wake, last_start,
                   min_gap, qps_requested, setup_result, rcVars, tkVars,
                   fpVars, wkVars, clVars>>

RecognizeNext ==
    \/ RcCall
    \/ RcThrottle
    \/ RcPreflight
    \/ RcSniff
    \/ RcRead
    \/ RcToken
    \/ RcRequest
    \/ RcNext
    \/ RcTick

SpecRecognize == RecognizeInit /\ [][RecognizeNext]_vars

----------------------------------------------------------------------------
(* ocr_service.py: get_access_token called by concurrent recognize_image   *)

\* the token exchanges one scenario makes
MaxExchanges == 2

\* the ticks one scenario lasts
TokenTicks == 2

\* a BaiduOcrProvider every caller shares
TokenProviders ==
    {setup_provider(NoProvider, "BaiduOCR",
         [key \in ConfigKeys |->
             IF key \in ConstructorKeys("BaiduOCR") THEN "k" ELSE Absent],
         qps_limit).provider : qps_limit \in {2, 5}}

TokenInit ==
    /\ FpIdle /\ WkIdle /\ ClIdle /\ RcIdle /\ TkIdle
    /\ current_provider \in TokenProviders
    /\ request_lock = 0
    /\ now = BootTime
    /\ caller_pc = [c \in Callers |-> "idle"]
    /\ wake = [c \in Callers |-> 0]
    /\ last_start = 0
    /\ min_gap = TicksPerSecond
    /\ qps_requested = 0
    /\ setup_result = TRUE

\* recognize_image, line 203: the caller enters get_access_token.  It has
\* released request_lock at line 110 and has since checked, opened and read
\* its image, which takes a time of its own: the callers arrive here at any
\* instants
TkEnter(c) ==
    /\ tk_pc[c] = "idle"
    /\ Len(tk_log) + Cardinality({d \in Callers : tk_pc[d] # "idle"}) < MaxExchanges
    /\ tk_pc' = [tk_pc EXCEPT ![c] = "check_token"]
    /\ tk_overlap' = (tk_overlap \/ \E d \in Callers : tk_pc[d] # "idle")
    /\ UNCHANGED <<current_provider, request_lock, now, caller_pc, wake,
                   last_start, min_gap, qps_requested, setup_result, rcVars,
                   tk_got, tk_pending, tk_log, fpVars, wkVars, clVars>>

\* line 68, left operand: self.access_token; None ends the test
TkCheckToken(c) ==
    /\ tk_pc[c] = "check_token"
    /\ tk_pc' = [tk_pc EXCEPT ![c] =
                    IF current_provider.access_token # 0
                    THEN "check_expire" ELSE "post"]
    /\ UNCHANGED <<current_provider, request_lock, now, caller_pc, wake,
                   last_start, min_gap, qps_requested, setup_result, rcVars,
                   tk_got, tk_pending, tk_log, tk_overlap,
                   fpVars, wkVars, clVars>>

\* line 68, right operand: time.time() < self.token_expire_time, and line
\* 69: return self.access_token
TkCheckExpire(c) ==
    /\ tk_pc[c] = "check_expire"
    /\ IF now < current_provider.token_expire_time
       THEN /\ tk_got' = [tk_got EXCEPT ![c] = current_provider.access_token]
            /\ tk_pc' = [tk_pc EXCEPT ![c] = "idle"]
       ELSE /\ tk_pc' = [tk_pc EXCEPT ![c] = "post"]
            /\ UNCHANGED tk_got
    /\ UNCHANGED <<current_provider, request_lock, now, caller_pc, wake,
                   last_start, min_gap, qps_requested, setup_result, rcVars,
                   tk_pending, tk_log, tk_overlap, fpVars, wkVars, clVars>>

\* line 80: requests.post(url, params=params) is sent
TkPost(c) ==
    /\ tk_pc[c] = "post"
    /\ tk_pending' = [tk_pending EXCEPT ![c] =
                         [at |-> now, held |-> current_provider.access_token,
                          held_expire |-> current_provider.token_expire_time,
                          token |-> 0, expires_in |-> 0]]
    /\ tk_pc' = [tk_pc EXCEPT ![c] = "posted"]
    /\ UNCHANGED <<current_provider, request_lock, now, caller_pc, wake,
                   last_start, min_gap, qps_requested, setup_result, rcVars,
                   tk_got, tk_log, tk_overlap, fpVars, wkVars, clVars>>

\* lines 80-84 and 88-93: the answer arrives; a body with "access_token" is
\* to be stored, anything else raises
TkResponse(c) ==
    /\ tk_pc[c] = "posted"
    /\ \E response \in TokenResponses :
          /\ tk_log' = Append(tk_log,
                 Exchange(c, tk_pending[c].at,
                     IF response.granted THEN Len(tk_log) + 1 ELSE 0,
                     response.expires_in,
                     tk_pending[c].held, tk_pending[c].held_expire))
          /\ IF response.granted
             THEN /\ tk_pending' = [tk_pending EXCEPT
                                       ![c].token = Len(tk_log) + 1,
                                       ![c].expires_in = response.expires_in]
                  /\ tk_pc' = [tk_pc EXCEPT ![c] = "store_token"]
                  /\ UNCHANGED tk_got
             ELSE /\ tk_pending' = [tk_pending EXCEPT ![c] = NoPending]
                  /\ tk_pc' = [tk_pc EXCEPT ![c] = "idle"]
                  /\ tk_got' = [tk_got EXCEPT ![c] = 0]
    /\ UNCHANGED <<current_provider, request_lock, now, caller_pc, wake,
                   last_start, min_gap, qps_requested, setup_result, rcVars,
                   tk_overlap, fpVars, wkVars, clVars>>

\* line 85: self.access_token = data["access_token"]
TkStoreToken(c) ==
    /\ tk_pc[c] = "store_token"
    /\ current_provider' =
           [current_provider EXCEPT !.access_token = tk_pending[c].token]
    /\ tk_pc' = [tk_pc EXCEPT ![c] = "store_expire"]
    /\ UNCHANGED <<request_lock, now, caller_pc, wake, last_start, min_gap,
                   qps_requested, setup_result, rcVars, tk_got, tk_pending,
                   tk_log, tk_overlap, fpVars, wkVars, clVars>>

\* line 87: self.token_expire_time = ..., and line 88: return
\* self.access_token
TkStoreExpire(c) ==
    /\ tk_pc[c] = "store_expire"
    /\ current_provider' =
           [current_provider EXCEPT !.token_expire_time =
               ExpireTime(now, tk_pending[c].expires_in)]
    /\ tk_got' = [tk_got EXCEPT ![c] = current_provider.access_token]
    /\ tk_pending' = [tk_pending EXCEPT ![c] = NoPending]
    /\ tk_pc' = [tk_pc EXCEPT ![c] = "idle"]
    /\ UNCHANGED <<request_lock, now, caller_pc, wake, last_start, min_gap,
                   qps_requested, setup_result, rcVars, tk_log, tk_overlap,
                   fpVars, wkVars, clVars>>

TkTick ==
    /\ now < BootTime + TokenTicks
    /\ now' = now + 1
    /\ UNCHANGED <<current_provider, request_lock, caller_pc, wake, last_start,
                   min_gap, qps_requested, setup_result, rcVars, tkVars,
                   fpVars, wkVars, clVars>>

TokenNext ==
    \/ \E c \in Callers : TkEnter(c)
    \/ \E c \in Callers : TkCheckToken(c)
    \/ \E c \in Callers : TkCheckExpire(c)
    \/ \E c \in Callers : TkPost(c)
    \/ \E c \in Callers : TkResponse(c)
    \/ \E c \in Callers : TkStoreToken(c)
    \/ \E c \in Callers : TkStoreExpire(c)
    \/ TkTick

SpecToken == TokenInit /\ [][TokenNext]_vars

----------------------------------------------------------------------------
(* Claims about get_access_token                                           *)

\* the expiry an exchange leads to: the instant of the exchange plus the
\* advertised lifetime less 300 seconds
ExpiryOf(exchange) ==
    exchange.at + ((IF exchange.expires_in = NoExpiresIn
                    THEN DefaultExpiresIn ELSE exchange.expires_in) - 300)
                      * TicksPerSecond

\* C19: with one caller at a time, get_access_token exchanges only when no
\* token is cached or the clock is at or past the cached expiry; a granted
\* token is cached with the expiry (instant of the exchange + expires_in -
\* 300 s); a call before the expiry goes on with the cached token and no
\* exchange, so that no second exchange follows a granted one before its
\* expiry.
C19_TokenExchangedOnlyWhenDue ==
    current_provider.name = "BaiduOCR" =>
        /\ \A i \in 1..Len(tk_log) :
               /\ tk_log[i].held = 0 \/ tk_log[i].at >= tk_log[i].held_expire
               /\ \A j \in (i + 1)..Len(tk_log) :
                      tk_log[i].token # 0 => tk_log[j].at >= ExpiryOf(tk_log[i])
        /\ (Len(tk_log) > 0 /\ tk_log[Len(tk_log)].token # 0) =>
               /\ current_provider.access_token = tk_log[Len(tk_log)].token
               /\ current_provider.token_expire_time = ExpiryOf(tk_log[Len(tk_log)])
        /\ rc_pc = "request" =>
               /\ current_provider.access_token # 0
               /\ \/ now < current_provider.token_expire_time
                  \/ /\ Len(tk_log) > 0
                     /\ tk_log[Len(tk_log)].at = now
                     /\ tk_log[Len(tk_log)].token = current_provider.access_token

\* the second call comes later than the exchange of the first and before the
\* expiry: it has gone on to its request with the cached token, and the
\* log still holds the one exchange
C19_Witness ==
    /\ current_provider.name = "BaiduOCR"
    /\ rc_calls = 2
    /\ rc_pc = "request"
    /\ Len(tk_log) = 1
    /\ tk_log[1].token # 0
    /\ now > tk_log[1].at
    /\ now < current_provider.token_expire_time

\* an exchange is under way for the caller: the request is about to be
\* sent, is sent, or its answer is being stored
Exchanging(c) == tk_pc[c] \in {"post", "posted", "store_token", "store_expire"}

\* C20 (as claimed): with concurrent callers on one BaiduOcrProvider the
\* check and refresh of the token run under mutual exclusion: at most one
\* exchange is under way at a time, no two exchanges are made for the same
\* cached token and expiry when the first was granted, and no caller reads
\* access_token / token_expire_time while another has written one of them
\* and not yet the other.
C20_TokenRefreshExclusive ==
    /\ Cardinality({c \in Callers : Exchanging(c)}) <= 1
    /\ \A i, j \in 1..Len(tk_log) :
           (i < j /\ tk_log[i].token # 0) =>
               ~(/\ tk_log[j].held = tk_log[i].held
                 /\ tk_log[j].held_expire = tk_log[i].held_expire)
    /\ \A c, d \in Callers :
           ~(/\ c # d
             /\ tk_pc[c] = "store_expire"
             /\ tk_pc[d] \in {"check_token", "check_expire"})

\* what holds of it: as long as no call of get_access_token began while
\* another was under way, the exchanges are one at a time and one per expiry
ExclusiveWhileNoOverlap == ~tk_overlap => C20_TokenRefreshExclusive

----------------------------------------------------------------------------
(* main_window.py: MainWindow._get_error_suggestion                        *)

\* the branch _get_error_suggestion takes for the message, named by the kind
\* of failure its advice is about
SuggestionFor(error_message) ==
    IF Contains(error_message, SuggestionNeedle.NotExistNeedle) THEN "not_exist"
    ELSE IF Contains(error_message, SuggestionNeedle.NotFileNeedle) THEN "not_file"
    ELSE IF Contains(error_message, SuggestionNeedle.UnsupportedNeedle) THEN "unsupported"
    ELSE IF Contains(error_message, SuggestionNeedle.EmptyImageNeedle) THEN "empty"
    ELSE IF Contains(error_message, SuggestionNeedle.TooLargeNeedle) THEN "too_large"
    ELSE IF Contains(error_message, SuggestionNeedle.ReadFailedNeedle) THEN "read_failed"
    ELSE IF \/ Contains(error_message, SuggestionNeedle.AuthFailedNeedle)
            \/ Contains(error_message, SuggestionNeedle.ApiKeyNeedle) THEN "auth"
    ELSE IF Contains(error_message, SuggestionNeedle.QpsNeedle) THEN "qps"
    ELSE IF \/ Contains(error_message, SuggestionNeedle.NetworkNeedle)
            \/ Contains(error_message, SuggestionNeedle.ConnectionNeedle) THEN "network"
    ELSE IF Contains(error_message, SuggestionNeedle.TimeoutNeedle) THEN "timeout"
    ELSE IF Contains(error_message, SuggestionNeedle.NoTextNeedle) THEN "no_text"
    ELSE "generic"

\* error_message = error_message.lower(), then the chain of tests
_get_error_suggestion(error_message) == SuggestionFor(Lower(error_message))

----------------------------------------------------------------------------
(* Claims about the image checks of recognize_image                        *)

\* the image fails one of the checks that do not depend on the provider
FailsCommonCheck(image) ==
    ~image.exists \/ ~image.isfile \/ image.size > MaxBytes

\* the words that name the first of these checks the image fails
FirstReason(image) ==
    IF ~image.exists THEN SuggestionNeedle.NotExistNeedle
    ELSE IF ~image.isfile THEN SuggestionNeedle.NotFileNeedle
    ELSE SuggestionNeedle.TooLargeNeedle

\* C13 (as claimed): for every provider variant a recognition applies the
\* checks in order (the path exists and is a regular file, the size is
\* within 8 MB, the extension is allowed) and fails with the reason of the
\* first failing check before any request is sent; a file over 8 MB is
\* rejected as too large whatever its extension.
C13_PreflightEveryProvider ==
    (/\ current_provider.name # "None"
     /\ rc_pc \in {"request", "done"}
     /\ FailsCommonCheck(rc_image))
        => /\ rc_pc = "done"
           /\ ~rc_sent
           /\ rc_outcome.kind = "raised"
           /\ Contains(rc_outcome.text, FirstReason(rc_image))

\* the same for the two providers that have the checks, with the extension
\* check: a request is sent only for a regular file within the size limit
\* whose extension the provider allows
PreflightWhereImplemented ==
    current_provider.name \in {"BaiduOCR", "TencentOCR"} =>
        /\ (rc_pc \in {"request", "done"} /\ FailsCommonCheck(rc_image))
               => /\ rc_pc = "done" /\ ~rc_sent /\ rc_outcome.kind = "raised"
                  /\ Contains(rc_outcome.text, FirstReason(rc_image))
        /\ rc_sent => Lower(rc_image.ext) \in valid_extensions(current_provider.name)

\* C18 (as claimed): a call whose image the checks reject (missing path, not
\* a regular file, too large, unsupported format) incurs no throttle wait
\* and leaves the provider's last_request_time unchanged.
C18_RejectedCallNotThrottled ==
    (/\ current_provider.name = "BaiduOCR"
     /\ rc_pc = "done"
     /\ \/ FailsCommonCheck(rc_image)
        \/ Lower(rc_image.ext) \notin valid_extensions("BaiduOCR"))
        => /\ rc_waited = 0
           /\ current_provider.last_request_time = rc_stamp_before

\* what holds of it: a missing path is turned away by OcrService before the
\* provider is entered
MissingPathNotThrottled ==
    (current_provider.name = "BaiduOCR" /\ rc_pc = "done" /\ ~rc_image.exists)
        => /\ rc_waited = 0
           /\ current_provider.last_request_time = rc_stamp_before

\* C15 (as claimed): with TencentOcrProvider and AliyunOcrProvider a failure
\* of the request caused by the network is reported so that it is told from
\* a failure the API reported: the kind read off the message
\* (_get_error_suggestion) is the network kind for the former and another
\* kind for the latter.
C15_NetworkToldFromApi ==
    (/\ current_provider.name \in {"TencentOCR", "AliyunOCR"}
     /\ rc_pc = "done" /\ rc_sent /\ rc_outcome.kind = "raised")
        => /\ rc_cause = "network"
                => _get_error_suggestion(rc_outcome.text) \in {"network", "timeout"}
           /\ rc_cause = "api"
                => _get_error_suggestion(rc_outcome.text) \notin {"network", "timeout"}

\* the same holds of BaiduOcrProvider, which catches the exceptions of the
\* network by their class
BaiduNetworkToldFromApi ==
    (/\ current_provider.name = "BaiduOCR"
     /\ rc_pc = "done" /\ rc_sent /\ rc_outcome.kind = "raised")
        => /\ rc_cause = "network"
                => _get_error_suggestion(rc_outcome.text) \in {"network", "timeout"}
           /\ rc_cause = "api"
                => _get_error_suggestion(rc_outcome.text) \notin {"network", "timeout"}

\* what the two providers add to the text of the library's exception is the
\* same for both causes
SameWrappingForBothCauses ==
    (/\ current_provider.name \in {"TencentOCR", "AliyunOCR"}
     /\ rc_pc = "done" /\ rc_sent /\ rc_outcome.kind = "raised")
        => rc_outcome.text =
               ProviderRaise(current_provider.name,
                   IF current_provider.name = "TencentOCR"
                   THEN OcrText.TencentApiFailedPrefix \o RawRequestText(rc_cause)
                   ELSE RawRequestText(rc_cause))

----------------------------------------------------------------------------
(* markdown_processor.py: clean_ocr_text and fix_common_ocr_errors         *)

\* characters the pattern \s and str.strip() take for whitespace
Whitespace == {" ", NL, "\t"}

Comma     == "uFF0C"    \* fullwidth comma
FullStop  == "u3002"    \* ideographic full stop
Exclaim   == "uFF01"    \* fullwidth exclamation mark
Question  == "uFF1F"    \* fullwidth question mark
Semicolon == "uFF1B"    \* fullwidth semicolon
Colon     == "uFF1A"    \* fullwidth colon

\* the class [，。！？；：]
Marks == {Comma, FullStop, Exclaim, Question, Semicolon, Colon}

\* last index of the greedy \s* that starts at from (from - 1 when empty)
RECURSIVE SpaceRunEnd(_, _)
SpaceRunEnd(s, from) ==
    IF from <= Len(s) /\ s[from] \in Whitespace THEN SpaceRunEnd(s, from + 1)
    ELSE from - 1

\* str.strip()
RECURSIVE Strip(_)
Strip(s) ==
    IF Len(s) = 0 THEN s
    ELSE IF s[1] \in Whitespace THEN Strip(Tail(s))
    ELSE IF s[Len(s)] \in Whitespace THEN Strip(SubSeq(s, 1, Len(s) - 1))
    ELSE s

\* The rewrite patterns.  "double": X\s*X -> X.  "plus": \s+X -> X.
\* "star": \s*X -> X.  "between": ([marks])\s+([marks]) -> \1\2.
\* "spaces": \s+ -> one space.
Double(mark)  == [kind |-> "double", mark |-> mark]
Plus(mark)    == [kind |-> "plus", mark |-> mark]
Star(mark)    == [kind |-> "star", mark |-> mark]
Between       == [kind |-> "between", mark |-> ""]
Spaces        == [kind |-> "spaces", mark |-> ""]

\* last index of the match of pattern that starts at pos, 0 when there is none.
\* After a greedy run of whitespace the next character is no whitespace, so
\* backtracking into the run finds no other match.
MatchEnd(pattern, s, pos) ==
    LET afterRun(from) == SpaceRunEnd(s, from) + 1
        at(q, set) == q <= Len(s) /\ s[q] \in set
    IN  CASE pattern.kind = "double" ->
                 IF s[pos] = pattern.mark /\ at(afterRun(pos + 1), {pattern.mark})
                 THEN afterRun(pos + 1) ELSE 0
          [] pattern.kind = "plus" ->
                 IF s[pos] \in Whitespace /\ at(afterRun(pos), {pattern.mark})
                 THEN afterRun(pos) ELSE 0
          [] pattern.kind = "star" ->
                 IF at(afterRun(pos), {pattern.mark}) THEN afterRun(pos) ELSE 0
          [] pattern.kind = "between" ->
                 IF /\ s[pos] \in Marks
                    /\ at(pos + 1, Whitespace)
                    /\ at(afterRun(pos + 1), Marks)
                 THEN afterRun(pos + 1) ELSE 0
          [] pattern.kind = "spaces" ->
                 IF s[pos] \in Whitespace THEN SpaceRunEnd(s, pos) ELSE 0

\* what replaces the match s[pos..end]
Replacement(pattern, s, pos, end) ==
    CASE pattern.kind = "between" -> <<s[pos], s[end]>>
      [] pattern.kind = "spaces"  -> <<" ">>
      [] OTHER                    -> <<pattern.mark>>

\* re.sub(pattern, replacement, s): the non-overlapping matches, leftmost
\* first, from pos on
RECURSIVE ReSub(_, _, _)
ReSub(pattern, s, pos) ==
    IF pos > Len(s) THEN <<>>
    ELSE LET end == MatchEnd(pattern, s, pos)
         IN  IF end > 0
             THEN Replacement(pattern, s, pos, end) \o ReSub(pattern, s, end + 1)
             ELSE <<s[pos]>> \o ReSub(pattern, s, pos + 1)

\* the list fixes of fix_common_ocr_errors, in its order
Fixes ==
    <<Double(Comma), Double(FullStop), Double(Exclaim), Double(Question),
      Double(Semicolon), Double(Colon),
      Plus(Comma), Star(FullStop), Star(Exclaim), Star(Question),
      Star(Semicolon), Star(Colon),
      Between>>

\* for pattern, replacement in fixes: text = re.sub(...), from the n-th on
RECURSIVE ApplyFixes(_, _)
ApplyFixes(text, n) ==
    IF n > Len(Fixes) THEN text
    ELSE ApplyFixes(ReSub(Fixes[n], text, 1), n + 1)

fix_common_ocr_errors(text) == ApplyFixes(text, 1)

\* mutant of clean_ocr_text: runs of whitespace are left as they are
clean_ocr_text_KeepWhitespace(raw_text) ==
    IF raw_text = <<>> THEN <<>>
    ELSE Strip(fix_common_ocr_errors(Strip(raw_text)))

clean_ocr_text(raw_text) ==
    IF raw_text = <<>> THEN <<>>
    ELSE Strip(fix_common_ocr_errors(ReSub(Spaces, Strip(raw_text), 1)))

----------------------------------------------------------------------------
(* markdown_processor.py: split_into_paragraphs and process_page_content   *)

\* [（(] and [）)]
OpenParens  == {"uFF08", "("}
CloseParens == {"uFF09", ")"}
\* [\.、]
ListSeparators == {".", "u3001"}
\* [一二三四五六七八九十]
CjkNumerals == {"u4E00", "u4E8C", "u4E09", "u56DB", "u4E94", "u516D", "u4E03",
                "u516B", "u4E5D", "u5341"}
\* [•·] and [-*]
Bullets == {"u2022", "u00B7", "-", "*"}

\* last index of the greedy run of characters of set that starts at from
RECURSIVE RunEnd(_, _, _)
RunEnd(s, from, set) ==
    IF from <= Len(s) /\ s[from] \in set THEN RunEnd(s, from + 1, set)
    ELSE from - 1

\* re.match of one of paragraph_start_patterns on a line
MatchesStartPattern(line) ==
    LET first == SpaceRunEnd(line, 1) + 1       \* after ^\s*
        at(q, set) == q <= Len(line) /\ line[q] \in set
    IN  \/ /\ at(first, OpenParens)
           /\ RunEnd(line, first + 1, Digits) >= first + 1
           /\ at(RunEnd(line, first + 1, Digits) + 1, CloseParens)
        \/ /\ RunEnd(line, first, Digits) >= first
           /\ at(RunEnd(line, first, Digits) + 1, ListSeparators)
        \/ /\ RunEnd(line, first, CjkNumerals) >= first
           /\ at(RunEnd(line, first, CjkNumerals) + 1, ListSeparators)
        \/ at(first, Bullets)

\* text.split('\n')
RECURSIVE SplitLines(_)
SplitLines(text) ==
    LET breaks == {k \in 1..Len(text) : text[k] = NL}
    IN  IF breaks = {} THEN <<text>>
        ELSE LET k == CHOOSE b \in breaks : \A c \in breaks : b <= c
             IN  <<SubSeq(text, 1, k - 1)>> \o SplitLines(SubSeq(text, k + 1, Len(text)))

\* the loop of split_into_paragraphs over lines[n..], with the paragraphs
\* and the current_paragraph collected so far
RECURSIVE ParagraphLoop(_, _, _, _)
ParagraphLoop(lines, n, paragraphs, current_paragraph) ==
    IF n > Len(lines)
    THEN IF current_paragraph # <<>>
         THEN Append(paragraphs, Strip(current_paragraph))
         ELSE paragraphs
    ELSE LET line == Strip(lines[n])
         IN  IF line = <<>>
             THEN IF current_paragraph # <<>>
                  THEN ParagraphLoop(lines, n + 1,
                           Append(paragraphs, Strip(current_paragraph)), <<>>)
                  ELSE ParagraphLoop(lines, n + 1, paragraphs, current_paragraph)
             ELSE IF MatchesStartPattern(line) /\ current_paragraph # <<>>
             THEN ParagraphLoop(lines, n + 1,
                      Append(paragraphs, Strip(current_paragraph)), line)
             ELSE IF current_paragraph # <<>>
             THEN ParagraphLoop(lines, n + 1, paragraphs,
                      current_paragraph \o <<" ">> \o line)
             ELSE ParagraphLoop(lines, n + 1, paragraphs, line)

\* [p for p in paragraphs if p]
RECURSIVE NonEmptyOnly(_)
NonEmptyOnly(paragraphs) ==
    IF Len(paragraphs) = 0 THEN <<>>
    ELSE (IF paragraphs[1] # <<>> THEN <<paragraphs[1]>> ELSE <<>>)
         \o NonEmptyOnly(Tail(paragraphs))

split_into_paragraphs(text) ==
    IF text = <<>> THEN <<>>
    ELSE NonEmptyOnly(ParagraphLoop(SplitLines(text), 1, <<>>, <<>>))

process_page_content(page_number, raw_text) ==
    [page_number  |-> page_number,
     raw_text     |-> raw_text,
     cleaned_text |-> clean_ocr_text(raw_text),
     paragraphs   |-> split_into_paragraphs(clean_ocr_text(raw_text))]

\* the characters of the texts cleaned: a letter, a space, a line end, a
\* bullet, two marks
CleanAlphabet == {"a", " ", NL, "-", FullStop, Comma}

CleanInit ==
    /\ cl_pc = "raw"
    /\ cl_raw_text \in StringsOver(CleanAlphabet, 0, MaxTextLen)
    /\ cleaned_once = <<>>
    /\ cleaned_twice = <<>>
    /\ cl_page = NoPage
    /\ AppIdle
    /\ RdIdle
    /\ FpIdle /\ OcrIdle /\ WkIdle

CleanOnce ==
    /\ cl_pc = "raw"
    /\ cleaned_once' = clean_ocr_text(cl_raw_text)
    /\ cl_pc' = "once"
    /\ UNCHANGED <<cl_raw_text, cleaned_twice, cl_page, rdVars, appVars, fpVars,
                   ocrVars, wkVars>>

CleanTwice ==
    /\ cl_pc = "once"
    /\ cleaned_twice' = clean_ocr_text(cleaned_once)
    /\ cl_pc' = "twice"
    /\ UNCHANGED <<cl_raw_text, cleaned_once, cl_page, rdVars, appVars, fpVars,
                   ocrVars, wkVars>>

\* the page numbers process_page_content is called with
PageNumberArgs == {1, 2}

ProcessPageContent ==
    /\ cl_pc = "raw"
    /\ \E page_number \in PageNumberArgs :
           cl_page' = process_page_content(page_number, cl_raw_text)
    /\ cl_pc' = "processed"
    /\ UNCHANGED <<cl_raw_text, cleaned_once, cleaned_twice, rdVars, appVars,
                   fpVars, ocrVars, wkVars>>

CleanNext == CleanOnce \/ CleanTwice \/ ProcessPageContent

SpecClean == CleanInit /\ [][CleanNext]_vars

----------------------------------------------------------------------------
(* Claims about clean_ocr_text                                             *)

\* C10 (as claimed): clean_ocr_text is idempotent, cleaning a cleaned text
\* returns it unchanged.
C10_CleanIdempotent ==
    cl_pc = "twice" => cleaned_twice = cleaned_once

\* C24: process_page_content returns a paragraphs list of at most one
\* element, which is cleaned_text when that is not empty; the cleaned text
\* holds no line end, cleaning has replaced each by a space.
C24_OneParagraphPerPage ==
    cl_pc = "processed" =>
        /\ Len(cl_page.paragraphs) <= 1
        /\ cl_page.cleaned_text # <<>> => cl_page.paragraphs = <<cl_page.cleaned_text>>
        /\ cl_page.cleaned_text = <<>> => cl_page.paragraphs = <<>>
        /\ \A k \in 1..Len(cl_page.cleaned_text) : cl_page.cleaned_text[k] # NL

\* a text of two lines, the second a list item, has been processed
C24_Witness ==
    /\ cl_pc = "processed"
    /\ \E k \in 2..(Len(cl_raw_text) - 1) :
           /\ cl_raw_text[k] = NL
           /\ cl_raw_text[k - 1] = "a"
           /\ cl_raw_text[k + 1] = "-"
    /\ Len(cl_page.paragraphs) = 1
    /\ cl_page.raw_text = cl_raw_text

----------------------------------------------------------------------------
(* markdown_processor.py: connect_paragraphs_between_pages and             *)
(* generate_markdown                                                       *)

\* f"\n--- 第 {page.page_number} 页 ---\n"
PageMarker(page_number) ==
    <<NL, "-", "-", "-", " ", "u7B2C", " ">> \o IntToStr(page_number)
        \o <<" ", "u9875", " ", "-", "-", "-", NL>>

\* the loop of connect_paragraphs_between_pages over pages[n..]; n - 1 is
\* the index i of enumerate
RECURSIVE ConnectLoop(_, _)
ConnectLoop(pages, n) ==
    IF n > Len(pages) THEN <<>>
    ELSE (IF pages[n].paragraphs = <<>> THEN <<>>
          ELSE (IF n - 1 > 0 THEN <<PageMarker(pages[n].page_number)>> ELSE <<>>)
               \o pages[n].paragraphs)
         \o ConnectLoop(pages, n + 1)

connect_paragraphs_between_pages(pages) ==
    IF pages = <<>> THEN <<>> ELSE ConnectLoop(pages, 1)

\* "\n".join(lines)
RECURSIVE JoinLines(_)
JoinLines(lines) ==
    IF Len(lines) = 0 THEN <<>>
    ELSE IF Len(lines) = 1 THEN lines[1]
    ELSE lines[1] \o <<NL>> \o JoinLines(Tail(lines))

\* f"# {title}\n"
TitleLine(title) == <<"#", " ">> \o title \o <<NL>>

\* f"**作者**: {author}\n"
AuthorLine(author) ==
    <<"*", "*", "u4F5C", "u8005", "*", "*", ":", " ">> \o author \o <<NL>>

Rule == <<"-", "-", "-">>

\* "--- 第", the prefix generate_markdown tests a paragraph for
MarkerPrefix == <<"-", "-", "-", " ", "u7B2C">>

\* "*本文档由小红书图片转Markdown工具自动生成*"
Attribution ==
    <<"*", "u672C", "u6587", "u6863", "u7531", "u5C0F", "u7EA2", "u4E66", "u56FE",
      "u7247", "u8F6C", "M", "a", "r", "k", "d", "o", "w", "n", "u5DE5", "u5177",
      "u81EA", "u52A8", "u751F", "u6210", "*">>

\* the loop of generate_markdown over connected_paragraphs: both branches
\* append the paragraph and an empty line
RECURSIVE ParagraphLines(_)
ParagraphLines(connected_paragraphs) ==
    IF Len(connected_paragraphs) = 0 THEN <<>>
    ELSE (IF StartsWithAt(connected_paragraphs[1], 1, MarkerPrefix)
          THEN <<connected_paragraphs[1], <<>>>>
          ELSE <<connected_paragraphs[1], <<>>>>)
         \o ParagraphLines(Tail(connected_paragraphs))

\* mutant of generate_markdown: the author line is emitted for an empty
\* author too
generate_markdown_AuthorAlways(pages, title, author) ==
    IF pages = <<>> THEN <<>>
    ELSE JoinLines(
             (IF title # <<>> THEN <<TitleLine(title)>> ELSE <<>>)
             \o <<AuthorLine(author)>>
             \o <<Rule \o <<NL>>>>
             \o ParagraphLines(connect_paragraphs_between_pages(pages))
             \o <<Rule, <<>>, Attribution>>)

generate_markdown(pages, title, author) ==
    IF pages = <<>> THEN <<>>
    ELSE JoinLines(
             (IF title # <<>> THEN <<TitleLine(title)>> ELSE <<>>)
             \o (IF author # <<>> THEN <<AuthorLine(author)>> ELSE <<>>)
             \o <<Rule \o <<NL>>>>
             \o ParagraphLines(connect_paragraphs_between_pages(pages))
             \o <<Rule, <<>>, Attribution>>)

\* the paragraph lists of a page: none, one, two, and a paragraph that
\* starts like a page marker
ParagraphLists ==
    {<<>>, <<<<"a">>>>, <<<<"a", FullStop>>, <<"b">>>>, <<MarkerPrefix \o <<"c">>>>}

\* a PageContent as process_page_content builds it, with the paragraphs given
PageContent(page_number, paragraphs) ==
    [page_number  |-> page_number,
     raw_text     |-> JoinLines(paragraphs),
     cleaned_text |-> JoinLines(paragraphs),
     paragraphs   |-> paragraphs]

\* up to MaxRenderPages pages numbered consecutively from 1 or from 9
RenderInit ==
    /\ rd_pc = "pages"
    /\ \E n \in 0..MaxRenderPages : \E first \in {1, 9} :
       \E ps \in [1..n -> ParagraphLists] :
           rd_pages = [k \in 1..n |-> PageContent(first + k - 1, ps[k])]
    /\ rd_title \in {<<>>, <<"T">>}
    /\ rd_author \in {<<>>, <<"A">>}
    /\ rd_markdown = <<>>
    /\ rd_connected = <<>>
    /\ rd_formatted = <<>>
    /\ wr_paragraph = <<>>
    /\ wr_lines = <<>>
    /\ cl_pc = "idle"
    /\ cl_raw_text = <<>>
    /\ cleaned_once = <<>>
    /\ cleaned_twice = <<>>
    /\ cl_page = NoPage
    /\ AppIdle
    /\ FpIdle /\ OcrIdle /\ WkIdle

GenerateMarkdown ==
    /\ rd_pc = "pages"
    /\ rd_markdown' = generate_markdown(rd_pages, rd_title, rd_author)
    /\ rd_connected' = connect_paragraphs_between_pages(rd_pages)
    /\ rd_pc' = "rendered"
    /\ UNCHANGED <<rd_pages, rd_title, rd_author, rd_formatted, wr_paragraph, wr_lines,
                   cl_pc, cl_raw_text, cleaned_once, cleaned_twice, cl_page,
                   appVars, fpVars, ocrVars, wkVars>>

SpecRender == RenderInit /\ [][GenerateMarkdown]_vars

----------------------------------------------------------------------------
(* Claims about generate_markdown                                          *)

\* an item followed by a blank line: the item, a line end, an empty line,
\* a line end
RECURSIVE EachFollowedByBlank(_)
EachFollowedByBlank(items) ==
    IF Len(items) = 0 THEN <<>>
    ELSE items[1] \o <<NL, NL>> \o EachFollowedByBlank(Tail(items))

LastLine(text) == SplitLines(text)[Len(SplitLines(text))]

\* C11: for a non-empty page list the document is, in this order, the H1
\* title line (only for a non-empty title), the bold author line (only for
\* a non-empty author), a horizontal rule, every stitched item followed by a
\* blank line, a closing rule and the attribution, which is the last line.
C11_RenderedInOrder ==
    (rd_pc = "rendered" /\ rd_pages # <<>>) =>
        /\ rd_markdown =
               (IF rd_title # <<>> THEN <<"#", " ">> \o rd_title \o <<NL, NL>> ELSE <<>>)
               \o (IF rd_author # <<>>
                   THEN <<"*", "*", "u4F5C", "u8005", "*", "*", ":", " ">>
                            \o rd_author \o <<NL, NL>>
                   ELSE <<>>)
               \o <<"-", "-", "-", NL, NL>>
               \o EachFollowedByBlank(connect_paragraphs_between_pages(rd_pages))
               \o <<"-", "-", "-", NL, NL>> \o Attribution
        /\ LastLine(rd_markdown) = Attribution

\* three pages rendered with a title and without an author, the second page
\* without paragraphs
C11_Witness ==
    /\ rd_pc = "rendered"
    /\ Len(rd_pages) = 3
    /\ rd_title # <<>>
    /\ rd_author = <<>>
    /\ rd_pages[1].paragraphs # <<>>
    /\ rd_pages[2].paragraphs = <<>>
    /\ Len(rd_pages[3].paragraphs) = 2
    /\ rd_markdown # <<>>

\* the list C21 describes, from the n-th page on: before the paragraphs of
\* every page but the first, one marker with the number of the page
RECURSIVE MarkerBeforeEachLaterPage(_, _)
MarkerBeforeEachLaterPage(pages, n) ==
    IF n > Len(pages) THEN <<>>
    ELSE (IF n > 1 THEN <<PageMarker(pages[n].page_number)>> ELSE <<>>)
         \o pages[n].paragraphs
         \o MarkerBeforeEachLaterPage(pages, n + 1)

\* C21 (as claimed): for any page list p1..pn the connected list is the
\* paragraphs of p1 followed, for each later page in order, by exactly one
\* marker with the number of that page and then the paragraphs of that
\* page, unmodified and unmerged; it holds n-1 markers.
C21_MarkerBeforeEachLaterPage ==
    (rd_pc = "rendered" /\ rd_pages # <<>>) =>
        rd_connected = MarkerBeforeEachLaterPage(rd_pages, 1)

\* what holds of it: the list is the one claimed when every page after the
\* first has a paragraph
MarkerBeforeEachLaterPageWithText ==
    (/\ rd_pc = "rendered"
     /\ rd_pages # <<>>
     /\ \A k \in 2..Len(rd_pages) : rd_pages[k].paragraphs # <<>>) =>
        rd_connected = MarkerBeforeEachLaterPage(rd_pages, 1)

----------------------------------------------------------------------------
(* markdown_processor.py: _split_sentences and _format_paragraph           *)

\* the class [。！？；] of sentence_endings
SentenceEndings == {FullStop, Exclaim, Question, Semicolon}

\* the budget of a line: len(paragraph) <= 80, len(current_line + sentence) <= 80
LineBudget == 80

\* re.split with the captured ending, then the loop that puts each ending
\* back on its sentence; the part after the last ending is kept when it is
\* not blank
RECURSIVE _split_sentences(_)
_split_sentences(text) ==
    IF \A k \in 1..Len(text) : text[k] \notin SentenceEndings
    THEN (IF Strip(text) # <<>> THEN <<text>> ELSE <<>>)
    ELSE <<SubSeq(text, 1,
                  CHOOSE k \in 1..Len(text) :
                      /\ text[k] \in SentenceEndings
                      /\ \A j \in 1..(k - 1) : text[j] \notin SentenceEndings)>>
         \o _split_sentences(
                SubSeq(text,
                       1 + (CHOOSE k \in 1..Len(text) :
                               /\ text[k] \in SentenceEndings
                               /\ \A j \in 1..(k - 1) : text[j] \notin SentenceEndings),
                       Len(text)))

\* mutant of PackLoop: a sentence is appended to the current line whatever
\* the length
RECURSIVE PackLoop_NoBudget(_, _, _, _)
PackLoop_NoBudget(sentences, n, lines, current_line) ==
    IF n > Len(sentences)
    THEN IF current_line # <<>> THEN Append(lines, current_line) ELSE lines
    ELSE IF current_line = <<>>
    THEN PackLoop_NoBudget(sentences, n + 1, lines, sentences[n])
    ELSE PackLoop_NoBudget(sentences, n + 1, lines, current_line \o sentences[n])

\* the loop of _format_paragraph over sentences[n..], with the lines and the
\* current_line collected so far
RECURSIVE PackLoop(_, _, _, _)
PackLoop(sentences, n, lines, current_line) ==
    IF n > Len(sentences)
    THEN IF current_line # <<>> THEN Append(lines, current_line) ELSE lines
    ELSE IF current_line = <<>>
    THEN PackLoop(sentences, n + 1, lines, sentences[n])
    ELSE IF Len(current_line \o sentences[n]) <= LineBudget
    THEN PackLoop(sentences, n + 1, lines, current_line \o sentences[n])
    ELSE PackLoop(sentences, n + 1, Append(lines, current_line), sentences[n])

\* mutant of _format_paragraph: a long paragraph is cut at the budget
_format_paragraph_Truncated(paragraph) ==
    IF paragraph = <<>> THEN <<>>
    ELSE IF Len(paragraph) <= LineBudget THEN <<paragraph>>
    ELSE <<SubSeq(paragraph, 1, LineBudget)>>

_format_paragraph(paragraph) ==
    IF paragraph = <<>> THEN <<>>
    ELSE IF Len(paragraph) <= LineBudget THEN <<paragraph>>
    ELSE PackLoop(_split_sentences(paragraph), 1, <<>>, <<>>)

\* a run of n copies of one character
RunOf(ch, n) == [k \in 1..n |-> ch]

\* the pieces paragraphs are built of: runs of a letter of a length well
\* under, at and over the budget, a space and nothing, each with and
\* without a sentence ending
WrapPieces ==
    {RunOf("a", n) \o e : n \in {1, 40, 79, 81}, e \in {<<>>, <<FullStop>>}}
    \cup {RunOf(" ", 1) \o e : e \in {<<>>, <<Semicolon>>}}
    \cup {<<Question>>}

RECURSIVE Concat(_)
Concat(pieces) ==
    IF Len(pieces) = 0 THEN <<>> ELSE pieces[1] \o Concat(Tail(pieces))

WrapInit ==
    /\ rd_pc = "paragraph"
    /\ \E pieces \in StringsOver(WrapPieces, 0, MaxPieces) :
           wr_paragraph = Concat(pieces)
    /\ wr_lines = <<>>
    /\ rd_pages = <<>>
    /\ rd_title = <<>>
    /\ rd_author = <<>>
    /\ rd_markdown = <<>>
    /\ rd_connected = <<>>
    /\ rd_formatted = <<>>
    /\ cl_pc = "idle"
    /\ cl_raw_text = <<>>
    /\ cleaned_once = <<>>
    /\ cleaned_twice = <<>>
    /\ cl_page = NoPage
    /\ AppIdle
    /\ FpIdle /\ OcrIdle /\ WkIdle

FormatParagraph ==
    /\ rd_pc = "paragraph"
    /\ wr_lines' = _format_paragraph(wr_paragraph)
    /\ rd_pc' = "wrapped"
    /\ UNCHANGED <<rd_pages, rd_title, rd_author, rd_markdown, rd_connected,
                   rd_formatted, wr_paragraph,
                   cl_pc, cl_raw_text, cleaned_once, cleaned_twice, cl_page,
                   appVars, fpVars, ocrVars, wkVars>>

SpecWrap == WrapInit /\ [][FormatParagraph]_vars

----------------------------------------------------------------------------
(* Claims about _format_paragraph                                          *)

\* no sentence unit of the text is longer than the budget: every stretch of
\* LineBudget characters that is followed by a character holds an ending
NoLongUnit(text) ==
    \A i \in 1..(Len(text) - LineBudget) :
        \E k \in i..(i + LineBudget - 1) : text[k] \in SentenceEndings

\* C12: when no sentence unit of the paragraph is longer than 80 characters
\* every returned line is at most 80 characters long, and a paragraph of at
\* most 80 characters is returned as one unmodified line.
C12_LinesWithinBudget ==
    rd_pc = "wrapped" =>
        /\ NoLongUnit(wr_paragraph) =>
               \A n \in 1..Len(wr_lines) : Len(wr_lines[n]) <= 80
        /\ (wr_paragraph # <<>> /\ Len(wr_paragraph) <= 80) =>
               wr_lines = <<wr_paragraph>>

\* a paragraph longer than the budget with no long unit, wrapped onto more
\* than one line, one of them filled to the budget
C12_Witness ==
    /\ rd_pc = "wrapped"
    /\ Len(wr_paragraph) > 80
    /\ NoLongUnit(wr_paragraph)
    /\ Len(wr_lines) > 1
    /\ \E n \in 1..Len(wr_lines) : Len(wr_lines[n]) = 80

\* C30: for a paragraph without leading or trailing whitespace the lines
\* _format_paragraph returns, concatenated in order, are the paragraph: no
\* character is lost, duplicated or moved, and every line but the last
\* ends with a sentence-final mark.
C30_WrapKeepsText ==
    (rd_pc = "wrapped" /\ Strip(wr_paragraph) = wr_paragraph) =>
        /\ Concat(wr_lines) = wr_paragraph
        /\ \A n \in 1..(Len(wr_lines) - 1) :
               /\ wr_lines[n] # <<>>
               /\ wr_lines[n][Len(wr_lines[n])] \in SentenceEndings

\* a paragraph over the budget with a space inside it and none at its ends,
\* wrapped onto more than one line
C30_Witness ==
    /\ rd_pc = "wrapped"
    /\ Len(wr_paragraph) > LineBudget
    /\ Strip(wr_paragraph) = wr_paragraph
    /\ \E k \in 1..Len(wr_paragraph) : wr_paragraph[k] = " "
    /\ Len(wr_lines) > 1

----------------------------------------------------------------------------
(* markdown_processor.py: format_markdown_structure                        *)

\* one pass of the loop of format_markdown_structure: what the stripped line
\* adds to formatted_lines
FormatLine(stripped_line, formatted_lines) ==
    IF stripped_line = <<>>
    THEN IF formatted_lines # <<>> /\ formatted_lines[Len(formatted_lines)] # <<>>
         THEN Append(formatted_lines, <<>>)
         ELSE formatted_lines
    ELSE IF StartsWithAt(stripped_line, 1, <<"#">>)
    THEN formatted_lines \o <<stripped_line, <<>>>>
    ELSE IF StartsWithAt(stripped_line, 1, MarkerPrefix)
    THEN formatted_lines \o <<<<>>, stripped_line, <<>>>>
    ELSE IF stripped_line = Rule
    THEN formatted_lines \o <<stripped_line, <<>>>>
    ELSE formatted_lines \o _format_paragraph(stripped_line) \o <<<<>>>>

\* the loop over lines[n..]
RECURSIVE FormatLoop(_, _, _)
FormatLoop(lines, n, formatted_lines) ==
    IF n > Len(lines) THEN formatted_lines
    ELSE FormatLoop(lines, n + 1, FormatLine(Strip(lines[n]), formatted_lines))

\* while formatted_lines and formatted_lines[-1] == "": formatted_lines.pop()
RECURSIVE PopBlankLines(_)
PopBlankLines(formatted_lines) ==
    IF formatted_lines # <<>> /\ formatted_lines[Len(formatted_lines)] = <<>>
    THEN PopBlankLines(SubSeq(formatted_lines, 1, Len(formatted_lines) - 1))
    ELSE formatted_lines

format_markdown_structure(markdown_text) ==
    IF markdown_text = <<>> THEN <<>>
    ELSE JoinLines(PopBlankLines(FormatLoop(SplitLines(markdown_text), 1, <<>>)))

\* a paragraph over the budget made of two sentences under it
LongParagraph == RunOf("a", 50) \o <<FullStop>> \o RunOf("b", 50)

\* the paragraph lists of a page of a document that is formatted: none, a
\* short one, two, a long one, and a long one that starts with a hash sign
DocumentParagraphLists ==
    {<<>>, <<<<"a">>>>, <<<<"a", FullStop>>, <<"b">>>>, <<LongParagraph>>,
     <<<<"#">> \o LongParagraph>>}

\* as RenderInit, with the pages of DocumentParagraphLists
DocumentInit ==
    /\ rd_pc = "pages"
    /\ \E n \in 0..MaxRenderPages : \E first \in {1, 9} :
       \E ps \in [1..n -> DocumentParagraphLists] :
           rd_pages = [k \in 1..n |-> PageContent(first + k - 1, ps[k])]
    /\ rd_title \in {<<>>, <<"T">>}
    /\ rd_author \in {<<>>, <<"A">>}
    /\ rd_markdown = <<>>
    /\ rd_connected = <<>>
    /\ rd_formatted = <<>>
    /\ wr_paragraph = <<>>
    /\ wr_lines = <<>>
    /\ cl_pc = "idle"
    /\ cl_raw_text = <<>>
    /\ cleaned_once = <<>>
    /\ cleaned_twice = <<>>
    /\ cl_page = NoPage
    /\ AppIdle
    /\ FpIdle /\ OcrIdle /\ WkIdle

\* OcrWorker.run, line 156, on the text generate_markdown returned
FormatMarkdownStructure ==
    /\ rd_pc = "rendered"
    /\ rd_formatted' = format_markdown_structure(rd_markdown)
    /\ rd_pc' = "formatted"
    /\ UNCHANGED <<rd_pages, rd_title, rd_author, rd_markdown, rd_connected,
                   wr_paragraph, wr_lines,
                   cl_pc, cl_raw_text, cleaned_once, cleaned_twice, cl_page,
                   appVars, fpVars, ocrVars, wkVars>>

DocumentNext == GenerateMarkdown \/ FormatMarkdownStructure

SpecDocument == DocumentInit /\ [][DocumentNext]_vars

----------------------------------------------------------------------------
(* Claims about format_markdown_structure                                  *)

\* the text has two empty lines in a row
TwoBlankLines(text) ==
    \E n \in 1..(Len(SplitLines(text)) - 1) :
        SplitLines(text)[n] = <<>> /\ SplitLines(text)[n + 1] = <<>>

\* a line of the text starts, after stripping, like a page-break marker
HasMarkerLine(text) ==
    \E n \in 1..Len(SplitLines(text)) :
        StartsWithAt(Strip(SplitLines(text)[n]), 1, MarkerPrefix)

\* C22 (as claimed): the text format_markdown_structure returns never holds
\* two consecutive blank lines, in particular not for a document of
\* several pages that generate_markdown produced.
C22_NoTwoBlankLines ==
    rd_pc = "formatted" => ~TwoBlankLines(rd_formatted)

\* what holds of it: a document without a page-break marker line is
\* returned without two consecutive blank lines
NoTwoBlankLinesWithoutMarker ==
    (rd_pc = "formatted" /\ ~HasMarkerLine(rd_markdown)) =>
        ~TwoBlankLines(rd_formatted)

\* every marker line of the formatted document follows two blank lines
MarkerAfterTwoBlankLines ==
    rd_pc = "formatted" =>
        \A n \in 1..Len(SplitLines(rd_formatted)) :
            StartsWithAt(SplitLines(rd_formatted)[n], 1, MarkerPrefix) =>
                /\ n > 2
                /\ SplitLines(rd_formatted)[n - 1] = <<>>
                /\ SplitLines(rd_formatted)[n - 2] = <<>>

\* the paragraphs of the pages
PageParagraphs ==
    UNION {{rd_pages[k].paragraphs[j] : j \in 1..Len(rd_pages[k].paragraphs)} :
           k \in 1..Len(rd_pages)}

\* the paragraph is a line of the formatted document
IsLine(paragraph) ==
    \E n \in 1..Len(SplitLines(rd_formatted)) :
        SplitLines(rd_formatted)[n] = paragraph

\* C23 (as claimed): in the document the pipeline delivers every page
\* paragraph has gone through _format_paragraph whatever it begins with: a
\* page paragraph over 80 characters whose sentence units are at most 80
\* characters long appears only as lines of at most 80 characters.
C23_EveryPageParagraphWrapped ==
    rd_pc = "formatted" =>
        \A paragraph \in PageParagraphs :
            (Len(paragraph) > LineBudget /\ NoLongUnit(paragraph)) =>
                ~IsLine(paragraph)

\* what holds of it: such a paragraph is wrapped unless it begins with a
\* hash sign or like a page-break marker
PageParagraphWrappedUnlessHeading ==
    rd_pc = "formatted" =>
        \A paragraph \in PageParagraphs :
            (/\ Len(paragraph) > LineBudget /\ NoLongUnit(paragraph)
             /\ ~StartsWithAt(paragraph, 1, <<"#">>)
             /\ ~StartsWithAt(paragraph, 1, MarkerPrefix)) =>
                /\ ~IsLine(paragraph)
                /\ \A n \in 1..Len(_format_paragraph(paragraph)) :
                       IsLine(_format_paragraph(paragraph)[n])

----------------------------------------------------------------------------
(* main_window.py: OcrWorker.run                                           *)

\* f"[第{i+1}页 - 未识别到文字内容]", with page = i + 1
Placeholder(page) ==
    <<"[", "u7B2C">> \o IntToStr(page)
        \o <<"u9875", " ", "-", " ", "u672A", "u8BC6", "u522B", "u5230",
             "u6587", "u5B57", "u5185", "u5BB9", "]">>

\* not ocr_text or ocr_text.strip() == ""
IsBlank(text) == Strip(text) = <<>>

\* texts a provider may return: nothing, blanks, a sentence
OcrTexts == {<<>>, <<" ", NL>>, <<"a", FullStop>>}

\* the dict start_conversion builds: service, api_key, secret_key
OcrConfigs ==
    [service : ProviderNames \cup {"OtherOCR"}, api_key : {"", "k"},
     secret_key : {"", "k"}]

\* lines 69-85: the config handed to setup_provider
ConvertConfig(config) ==
    [key \in ConfigKeys |->
        CASE config.service = "BaiduOCR" /\ key \in {"api_key", "secret_key"} ->
                 config[key]
          [] config.service = "TencentOCR" /\ key = "secret_id" -> config.api_key
          [] config.service = "TencentOCR" /\ key = "secret_key" -> config.secret_key
          [] config.service = "AliyunOCR" /\ key = "access_key_id" -> config.api_key
          [] config.service = "AliyunOCR" /\ key = "access_key_secret" ->
                 config.secret_key
          [] OTHER -> Absent]

Progress(value) == [sig |-> "progress_updated", value |-> value]
Status(kind, index) == [sig |-> "status_updated", kind |-> kind, index |-> index]
Finished(document) == [sig |-> "finished", document |-> document]
ErrorOccurred(stage, index) == [sig |-> "error_occurred", stage |-> stage, index |-> index]

\* where the loop goes after the page at index i
AfterPage(i) == IF i + 1 < Len(wk_file_paths) THEN "loop" ELSE "generate"

WorkerInit ==
    /\ wk_pc = "start"
    /\ wk_file_paths \in StringsOver([exists : BOOLEAN], 0, MaxWorkerFiles)
    /\ wk_ocr_config \in OcrConfigs
    /\ wk_i = 0
    /\ wk_ocr_text = <<>>
    /\ wk_pages = <<>>
    /\ signals = <<>>
    /\ recognize_calls = <<>>
    /\ ErIdle
    /\ FpIdle /\ OcrIdle /\ ClIdle

\* lines 63-103: the provider is set up; an unsupported service or a failed
\* setup raises, and the handler of line 164 emits error_occurred
WorkerSetup ==
    /\ wk_pc = "start"
    /\ LET provider_name == wk_ocr_config.service
           r == setup_provider(current_provider, provider_name,
                               ConvertConfig(wk_ocr_config),
                               get_qps_limit(provider_name))
       IN  IF provider_name \notin ProviderNames
           THEN /\ signals' = Append(signals, ErrorOccurred("setup", 0))
                /\ wk_pc' = "done"
                /\ UNCHANGED <<current_provider, setup_result>>
           ELSE /\ current_provider' = r.provider
                /\ setup_result' = r.result
                /\ IF r.result
                   THEN /\ wk_pc' = IF Len(wk_file_paths) > 0 THEN "loop" ELSE "generate"
                        /\ UNCHANGED signals
                   ELSE /\ signals' = Append(signals, ErrorOccurred("setup", 0))
                        /\ wk_pc' = "done"
    /\ UNCHANGED <<wk_file_paths, wk_ocr_config, wk_i, wk_ocr_text, wk_pages,
                   recognize_calls, request_lock, now, caller_pc, wake, last_start,
                   min_gap, qps_requested, rcVars, tkVars, erVars,
                   fpVars, clVars>>

\* lines 107-112: the head of the loop body
PageHead ==
    /\ wk_pc = "loop"
    /\ signals' = signals \o
           <<Progress(((wk_i + 1) * 50) \div Len(wk_file_paths)),
             Status("page", wk_i)>>
    /\ wk_pc' = "exists"
    /\ UNCHANGED <<wk_file_paths, wk_ocr_config, wk_i, wk_ocr_text, wk_pages,
                   recognize_calls, ocrVars, erVars,
                   fpVars, clVars>>

\* mutant of PageFailed: the handler of line 137 goes on with the next page
PageFailed_Continue ==
    /\ signals' = Append(signals, Status("error", wk_i))
    /\ wk_i' = wk_i + 1
    /\ wk_pc' = AfterPage(wk_i)
    /\ UNCHANGED <<wk_pages, wk_ocr_text>>

\* lines 137-141 and 164-166: an exception in the loop body is reported by
\* status_updated, raised again and reported by error_occurred; run returns
PageFailed ==
    /\ signals' = signals \o <<Status("error", wk_i), ErrorOccurred("page", wk_i)>>
    /\ wk_pc' = "done"
    /\ UNCHANGED <<wk_i, wk_pages, wk_ocr_text>>

\* lines 116-121: os.path.exists(file_path)
CheckFile ==
    /\ wk_pc = "exists"
    /\ IF wk_file_paths[wk_i + 1].exists
       THEN /\ signals' = Append(signals, Status("recognizing", wk_i))
            /\ wk_pc' = "recognize"
            /\ UNCHANGED <<wk_i, wk_pages, wk_ocr_text>>
       ELSE PageFailed
    /\ UNCHANGED <<wk_file_paths, wk_ocr_config, recognize_calls, ocrVars,
                   erVars,
                   fpVars, clVars>>

\* line 122: ocr_service.recognize_image returns a text
RecognizeReturns ==
    /\ wk_pc = "recognize"
    /\ \E text \in OcrTexts :
           /\ wk_ocr_text' = text
           /\ recognize_calls' = Append(recognize_calls,
                  [index |-> wk_i, raised |-> FALSE, text |-> text])
    /\ wk_pc' = "process"
    /\ UNCHANGED <<wk_file_paths, wk_ocr_config, wk_i, wk_pages, signals, ocrVars,
                   erVars,
                   fpVars, clVars>>

\* line 122: ocr_service.recognize_image raises
RecognizeRaises ==
    /\ wk_pc = "recognize"
    /\ recognize_calls' = Append(recognize_calls,
           [index |-> wk_i, raised |-> TRUE, text |-> <<>>])
    /\ PageFailed
    /\ UNCHANGED <<wk_file_paths, wk_ocr_config, ocrVars, erVars,
                   fpVars, clVars>>

\* mutant of SubstituteEmpty: the placeholder names the loop index i
SubstituteEmpty_ZeroBased(text, i) ==
    IF IsBlank(text) THEN Placeholder(i) ELSE text

\* lines 126-129: the text handed on for the page at index i
SubstituteEmpty(text, i) ==
    IF IsBlank(text) THEN Placeholder(i + 1) ELSE text

\* lines 126-135: an empty result is replaced, the page content is appended
ProcessPage ==
    /\ wk_pc = "process"
    /\ wk_ocr_text' = SubstituteEmpty(wk_ocr_text, wk_i)
    /\ signals' = signals \o
           (IF IsBlank(wk_ocr_text) THEN <<Status("warning", wk_i)>> ELSE <<>>)
           \o <<Status("processing", wk_i)>>
    /\ wk_pages' = Append(wk_pages,
           process_page_content(wk_i + 1, SubstituteEmpty(wk_ocr_text, wk_i)))
    /\ wk_i' = wk_i + 1
    /\ wk_pc' = AfterPage(wk_i)
    /\ UNCHANGED <<wk_file_paths, wk_ocr_config, recognize_calls, ocrVars,
                   erVars,
                   fpVars, clVars>>

\* lines 144-149: generate_markdown
WorkerGenerate ==
    /\ wk_pc = "generate"
    /\ signals' = signals \o <<Progress(75), Status("generating", wk_i)>>
    /\ wk_pc' = "format"
    /\ UNCHANGED <<wk_file_paths, wk_ocr_config, wk_i, wk_ocr_text, wk_pages,
                   recognize_calls, ocrVars, erVars,
                   fpVars, clVars>>

\* lines 152-156: format_markdown_structure
WorkerFormat ==
    /\ wk_pc = "format"
    /\ signals' = signals \o <<Progress(90), Status("formatting", wk_i)>>
    /\ wk_pc' = "finish"
    /\ UNCHANGED <<wk_file_paths, wk_ocr_config, wk_i, wk_ocr_text, wk_pages,
                   recognize_calls, ocrVars, erVars,
                   fpVars, clVars>>

\* mutant of FinishSignals: finished is emitted before the last progress
\* and status
FinishSignals_FinishedFirst(document) ==
    <<Finished(document), Progress(100), Status("done", 0)>>

\* lines 158-162: the last signals of a successful run; the document is
\* written from the pages
FinishSignals(document) ==
    <<Progress(100), Status("done", 0), Finished(document)>>

WorkerFinish ==
    /\ wk_pc = "finish"
    /\ signals' = signals \o FinishSignals(wk_pages)
    /\ wk_pc' = "done"
    /\ UNCHANGED <<wk_file_paths, wk_ocr_config, wk_i, wk_ocr_text, wk_pages,
                   recognize_calls, ocrVars, erVars,
                   fpVars, clVars>>

WorkerNext ==
    \/ WorkerSetup
    \/ PageHead
    \/ CheckFile
    \/ RecognizeReturns
    \/ RecognizeRaises
    \/ ProcessPage
    \/ WorkerGenerate
    \/ WorkerFormat
    \/ WorkerFinish

SpecWorker == WorkerInit /\ [][WorkerNext]_vars

----------------------------------------------------------------------------
(* Claims about OcrWorker.run                                              *)

\* the decimal digits of n stand in text, as a whole number
Mentions(text, n) ==
    \E from \in 1..Len(text) :
        LET to == from + Len(IntToStr(n)) - 1
        IN  /\ to <= Len(text)
            /\ SubSeq(text, from, to) = IntToStr(n)
            /\ from > 1 => text[from - 1] \notin Digits
            /\ to < Len(text) => text[to + 1] \notin Digits

SignalsOf(names) == {n \in 1..Len(signals) : signals[n].sig \in names}

\* the recognitions that returned an empty or whitespace-only text
BlankCalls ==
    {n \in 1..Len(recognize_calls) :
        ~recognize_calls[n].raised /\ IsBlank(recognize_calls[n].text)}

\* C7: if recognition of the page at position k returns an empty or
\* whitespace-only text, the text handed to process_page_content for that
\* page is a non-empty placeholder that mentions page k, PageContent.raw_text
\* is that placeholder, and the run goes on instead of failing at that page.
C7_EmptyRecognitionSubstituted ==
    \A n \in BlankCalls :
        LET k == recognize_calls[n].index + 1
        IN  /\ Len(wk_pages) >= k =>
                /\ wk_pages[k].page_number = k
                /\ ~IsBlank(wk_pages[k].raw_text)
                /\ Mentions(wk_pages[k].raw_text, k)
            /\ (Len(wk_pages) = k /\ n = Len(recognize_calls)) =>
                wk_ocr_text = wk_pages[k].raw_text
            /\ \A e \in SignalsOf({"error_occurred"}) : signals[e].index >= k
            /\ \A e \in SignalsOf({"status_updated"}) :
                   signals[e].kind = "error" => signals[e].index >= k
            /\ wk_pc = "done" => Len(wk_pages) >= k

\* page 2 of 3 came back blank, its raw_text is the placeholder of page 2,
\* page 3 was recognized after it and the run finished
C7_Witness ==
    /\ wk_pc = "done"
    /\ Len(wk_file_paths) = 3
    /\ Len(wk_pages) = 3
    /\ 2 \in BlankCalls
    /\ recognize_calls[2].index = 1
    /\ wk_pages[2].raw_text = Placeholder(2)
    /\ ~IsBlank(recognize_calls[3].text)
    /\ SignalsOf({"finished"}) # {}

\* the loop indices at which the preparation or the recognition of a page
\* failed
FailedPages ==
    {recognize_calls[n].index : n \in {m \in 1..Len(recognize_calls) :
                                           recognize_calls[m].raised}}
    \cup {signals[n].index : n \in {m \in SignalsOf({"status_updated"}) :
                                        signals[m].kind = "error"}}

\* C8: if the preparation or the recognition of the page at position k fails
\* (other than by an empty result), the worker makes no recognition call for
\* a later page, does not retry page k and never emits finished.
C8_FailureAborts ==
    \A i \in FailedPages :
        /\ \A n \in 1..Len(recognize_calls) : recognize_calls[n].index <= i
        /\ \A n, m \in 1..Len(recognize_calls) :
               recognize_calls[n].index = recognize_calls[m].index => n = m
        /\ SignalsOf({"finished"}) = {}
        /\ wk_pc = "done"
        /\ Len(wk_pages) = i

\* the recognition of page 2 of 3 raised after page 1 was processed
C8_Witness ==
    /\ wk_pc = "done"
    /\ Len(wk_file_paths) = 3
    /\ Len(wk_pages) = 1
    /\ Len(recognize_calls) = 2
    /\ recognize_calls[2].raised
    /\ FailedPages = {1}

\* C9: a run ends by emitting exactly one terminal signal, finished or
\* error_occurred, never both and never neither, and no progress or status
\* signal is emitted after it.
C9_OneTerminalSignalLast ==
    LET terminal == SignalsOf({"finished", "error_occurred"})
    IN  /\ Cardinality(terminal) <= 1
        /\ \A n \in terminal : n = Len(signals)
        /\ wk_pc = "done" <=> Cardinality(terminal) = 1

\* a run over two pages has ended with finished as its last signal
C9_Witness ==
    /\ wk_pc = "done"
    /\ Len(wk_pages) = 2
    /\ signals[Len(signals)].sig = "finished"
    /\ Cardinality(SignalsOf({"progress_updated"})) = 5

\* a run has ended with error_occurred as its last signal
C9_WitnessError ==
    /\ wk_pc = "done"
    /\ signals[Len(signals)].sig = "error_occurred"
    /\ signals[Len(signals)].stage = "page"

----------------------------------------------------------------------------
(* main_window.py: the error signal of OcrWorker.run and the suggestion     *)
(* MainWindow.on_conversion_error reads off it                             *)

\* os.path.basename(file_path) of the file that fails: two plain names, and
\* names that hold words _get_error_suggestion looks for
\* ("网络.jpg", "认证失败.jpg", "API Key.png")
ErrorFileNames ==
    {<<"a", ".", "j", "p", "g">>,
     <<"b", ".", "p", "n", "g">>,
     SuggestionNeedle.NetworkNeedle \o JpgExt,
     SuggestionNeedle.AuthFailedNeedle \o JpgExt,
     <<"A", "P", "I", " ", "K", "e", "y", ".", "p", "n", "g">>}

\* the path of the file
ErrorPath(file_name) == <<"d", "/">> \o file_name

\* the failures a page can end with, each with its kind in the error
\* taxonomy and the text of the exception as it reaches OcrWorker.run: the
\* worker's own check (line 117), OcrService.recognize_image, the image
\* checks and the reading of BaiduOcrProvider and TencentOcrProvider
PreflightFailures(file_name) ==
    {[kind |-> "InputNotFound", provider |-> "None",
      text |-> WorkerText.FileMissingPrefix \o file_name],
     [kind |-> "InputNotFound", provider |-> "None",
      text |-> OcrText.NotExistPrefix \o ErrorPath(file_name)]}
    \cup UNION {
        {[kind |-> "NotAFile", provider |-> p,
          text |-> ProviderRaise(p, OcrText.NotFilePrefix \o ErrorPath(file_name))],
         [kind |-> "ImageTooLarge", provider |-> p,
          text |-> ProviderRaise(p, OcrText.TooLargePrefix \o FormatMB(MaxBytes + 1)
                                       \o OcrText.TooLargeSuffix)],
         [kind |-> "UnsupportedFormat", provider |-> p,
          text |-> ProviderRaise(p, OcrText.UnsupportedPrefix \o TxtExt \o FormatsText(p)
                       \o (CHOOSE listed \in JoinedExtensions(p) : TRUE))],
         [kind |-> "EmptyImage", provider |-> p,
          text |-> ProviderRaise(p, OcrText.EmptyImageText)]} :
        p \in {"BaiduOCR", "TencentOCR"}}
    \cup {[kind |-> "UnsupportedFormat", provider |-> "BaiduOCR",
           text |-> BaiduRaise(OcrText.ActualFormatPrefix \o <<"G", "I", "F">>
                                   \o OcrText.ActualFormatSuffix)],
          [kind |-> "ImageTooLarge", provider |-> "BaiduOCR",
           text |-> BaiduRaise(OcrText.EncodedTooLargePrefix
                        \o FormatMB(Base64Length(MaxBytes)) \o <<"M", "B">>)]}

\* the kind of the taxonomy an error code of error_mapping stands for:
\* authentication and token codes, quota codes, any other
KindOfCode(error_code) ==
    IF error_code \in {4, 100, 110, 111} THEN "AuthenticationFailure"
    ELSE IF error_code \in {17, 18, 19} THEN "QuotaExceeded"
    ELSE "ProviderError"

\* the failures of the token exchange and of the request
RequestFailures ==
    {[kind |-> "AuthenticationFailure", provider |-> "BaiduOCR",
      text |-> BaiduRaise(AuthFailedText(response))] :
        response \in {r \in TokenResponses : ~r.granted}}
    \cup {[kind |-> (IF result.kind = "error_code"
                     THEN KindOfCode(result.error_code) ELSE "NetworkFailure"),
           provider |-> "BaiduOCR",
           text |-> BaiduRaise(BaiduResultText(result, qps_limit))] :
             result \in {r \in BaiduResults :
                            r.kind \notin {"words", "no_words_result", "no_words"}},
             qps_limit \in {2}}
    \cup {[kind |-> (IF cause = "network" THEN "NetworkFailure" ELSE "ProviderError"),
           provider |-> "TencentOCR",
           text |-> TencentRaise(OcrText.TencentApiFailedPrefix \o RawRequestText(cause))] :
             cause \in {"network", "api"}}
    \cup {[kind |-> (IF cause = "network" THEN "NetworkFailure" ELSE "ProviderError"),
           provider |-> "AliyunOCR",
           text |-> AliyunRaise(RawRequestText(cause))] :
             cause \in {"network", "api"}}

ReportInit ==
    /\ FpIdle /\ OcrIdle /\ ClIdle
    /\ wk_pc = "idle"
    /\ wk_file_paths = <<>>
    /\ wk_ocr_config = [service |-> "None", api_key |-> "", secret_key |-> ""]
    /\ wk_i = 0
    /\ wk_ocr_text = <<>>
    /\ wk_pages = <<>>
    /\ signals = <<>>
    /\ recognize_calls = <<>>
    /\ er_pc = "failed"
    /\ er_file_name \in ErrorFileNames
    /\ er_failure \in PreflightFailures(er_file_name) \cup RequestFailures
    /\ er_message = <<>>
    /\ er_suggestion = "none"

\* OcrWorker.run, lines 137-141: the handler of the loop body builds
\* error_msg around the name of the file and raises it
WrapFileError ==
    /\ er_pc = "failed"
    /\ er_message' = WorkerText.ProcessFilePrefix \o er_file_name \o WorkerText.ProcessFileSuffix
                         \o er_failure.text
    /\ er_pc' = "raised"
    /\ UNCHANGED <<er_file_name, er_failure, er_suggestion, wk_pc, wk_file_paths,
                   wk_ocr_config, wk_i, wk_ocr_text, wk_pages, signals,
                   recognize_calls, fpVars, ocrVars, clVars>>

\* OcrWorker.run, lines 164-166: the outer handler emits error_occurred
EmitErrorOccurred ==
    /\ er_pc = "raised"
    /\ er_message' = WorkerText.ErrorSignalPrefix \o er_message
    /\ er_pc' = "emitted"
    /\ UNCHANGED <<er_file_name, er_failure, er_suggestion, wk_pc, wk_file_paths,
                   wk_ocr_config, wk_i, wk_ocr_text, wk_pages, signals,
                   recognize_calls, fpVars, ocrVars, clVars>>

\* MainWindow.on_conversion_error, line 547
SuggestForError ==
    /\ er_pc = "emitted"
    /\ er_suggestion' = _get_error_suggestion(er_message)
    /\ er_pc' = "shown"
    /\ UNCHANGED <<er_file_name, er_failure, er_message, wk_pc, wk_file_paths,
                   wk_ocr_config, wk_i, wk_ocr_text, wk_pages, signals,
                   recognize_calls, fpVars, ocrVars, clVars>>

ReportNext == WrapFileError \/ EmitErrorOccurred \/ SuggestForError

SpecReport == ReportInit /\ [][ReportNext]_vars

----------------------------------------------------------------------------
(* Claims about the error signal                                           *)

\* the branch of _get_error_suggestion that is about a kind of the taxonomy
SuggestionOfKind(kind) ==
    CASE kind = "InputNotFound"         -> {"not_exist"}
      [] kind = "NotAFile"              -> {"not_file"}
      [] kind = "UnsupportedFormat"     -> {"unsupported"}
      [] kind = "ImageTooLarge"         -> {"too_large"}
      [] kind = "EmptyImage"            -> {"empty"}
      [] kind = "AuthenticationFailure" -> {"auth"}
      [] kind = "QuotaExceeded"         -> {"qps"}
      [] kind = "NetworkFailure"        -> {"network", "timeout"}
      [] kind = "ProviderError"         -> {"generic"}

\* the message the signal would carry for the same failure of a file named
\* "x.jpg"
MessageForPlainName(failure_text) ==
    WorkerText.ErrorSignalPrefix \o WorkerText.ProcessFilePrefix \o <<"x">> \o JpgExt
        \o WorkerText.ProcessFileSuffix \o failure_text

\* C16 (as claimed): for every kind of failure and every name of the file,
\* the kind _get_error_suggestion reads off the message of the error signal
\* is the kind of the failure that occurred.
C16_KindRecoverable ==
    er_pc = "shown" => er_suggestion \in SuggestionOfKind(er_failure.kind)

\* the second half of C16: the kind read off the message does not depend on
\* the name of the file (a failure text that itself holds the path is left
\* aside)
KindIndependentOfFileName ==
    (er_pc = "shown" /\ er_failure.kind \notin {"InputNotFound", "NotAFile"})
        => er_suggestion = _get_error_suggestion(MessageForPlainName(er_failure.text))

\* what holds of it: the failures of the image checks by extension, raw
\* size and emptiness, and the network failures of BaiduOcrProvider, are
\* recovered when the file has a plain name
PlainNameChecksRecovered ==
    (/\ er_pc = "shown"
     /\ er_file_name \in {<<"a", ".", "j", "p", "g">>, <<"b", ".", "p", "n", "g">>}
     /\ \/ er_failure.kind \in {"NotAFile", "EmptyImage"}
        \/ er_failure.kind = "NetworkFailure" /\ er_failure.provider = "BaiduOCR"
        \/ Contains(er_failure.text, SuggestionNeedle.TooLargeNeedle)
        \/ Contains(er_failure.text, SuggestionNeedle.UnsupportedNeedle))
        => er_suggestion \in SuggestionOfKind(er_failure.kind)

----------------------------------------------------------------------------
(* config_manager.py: ConfigManager                                        *)

\* _deep_update(base_dict, update_dict): the items of the object base_dict
\* after the call, which updates it in place
RECURSIVE _deep_update(_, _)
_deep_update(base_dict, update_dict) ==
    [key \in DOMAIN base_dict \cup DOMAIN update_dict |->
        IF key \notin DOMAIN update_dict THEN base_dict[key]
        ELSE IF /\ key \in DOMAIN base_dict
                /\ ~base_dict[key].leaf
                /\ ~update_dict[key].leaf
        THEN Dict(_deep_update(base_dict[key].items, update_dict[key].items))
        ELSE update_dict[key]]

\* self.default_config.copy() is a shallow copy: the copy has its own keys,
\* and under each key the very object default_config holds.  _deep_update
\* on the copy recurses into those objects, so a dict under a key of
\* default_config that the file also holds as a dict is updated in
\* default_config too; a key that is rebound is rebound in the copy only.
DefaultAfterMerge(default, config) ==
    [key \in DOMAIN default |->
        IF /\ key \in DOMAIN config
           /\ ~default[key].leaf
           /\ ~config[key].leaf
        THEN Dict(_deep_update(default[key].items, config[key].items))
        ELSE default[key]]

\* load_config: the dict returned, and default_config after the call
load_config(default, file) ==
    IF file.state = "json"
    THEN [config  |-> _deep_update(default, file.content),
          default |-> DefaultAfterMerge(default, file.content)]
    ELSE [config |-> default, default |-> default]

\* service_name.lower().replace("ocr", "") and the chain of comparisons:
\* the key of the service in a section, "" when the name is none of the three
ServiceKey(service_name) ==
    CASE service_name = "BaiduOCR"   -> "baidu"
      [] service_name = "TencentOCR" -> "tencent"
      [] service_name = "AliyunOCR"  -> "aliyun"
      [] OTHER -> ""

\* the key of the service in config["performance"]
QpsKey(service_name) ==
    CASE service_name = "BaiduOCR"   -> "baidu_qps"
      [] service_name = "TencentOCR" -> "tencent_qps"
      [] service_name = "AliyunOCR"  -> "aliyun_qps"
      [] OTHER -> ""

\* dict.update(other): the items of the dict after the call
DictUpdate(items, other) ==
    [k \in DOMAIN items \cup DOMAIN other |->
        IF k \in DOMAIN other THEN other[k] ELSE items[k]]

\* config[section].update(other), and config[section][key].update(other)
UpdateSection(config, section, other) ==
    [config EXCEPT ![section] = Dict(DictUpdate(config[section].items, other))]

UpdateService(config, section, key, other) ==
    [config EXCEPT ![section] =
        Dict([config[section].items EXCEPT ![key] =
                 Dict(DictUpdate(config[section].items[key].items, other))])]

\* config[section][key] = value
SetItem(config, section, key, value) ==
    UpdateSection(config, section, [k \in {key} |-> Leaf(value)])

\* the dict under section of the config load_config returned is the object
\* default_config holds under it: the shallow copy was not rebound there
Shared(default, file, section) ==
    /\ section \in DOMAIN default
    /\ ~default[section].leaf
    /\ file.state = "json" /\ section \in DOMAIN file.content
           => ~file.content[section].leaf

\* save_config: json.dump to the file, or IOError and the file as it was
save_config(file, config, written) ==
    IF written THEN JsonFile(config) ELSE file

\* a file that holds a part of the configuration
PartialConfig == [ocr |-> Dict([baidu |-> Dict([api_key |-> Leaf("k")])])]

ConfigFiles == {AbsentFile, UnreadableFile, JsonFile(PartialConfig)}

\* the service names of the calls: the three of the combo box and another
ServiceArgs == ProviderNames \cup {"OtherOCR"}

\* the service_config of update_ocr_config, the output_config of
\* update_output_config, the qps_limit of update_qps_limit
ServiceConfigArgs == {[api_key |-> Leaf("k"), secret_key |-> Leaf("s")]}
OutputConfigArgs  == {[directory |-> Leaf("out")]}
QpsArgs           == {9}

ConfigInit ==
    /\ cm_default = default_config
    /\ cm_file \in ConfigFiles
    /\ cm_returned = NothingReturned
    /\ cm_ops = 0
    /\ MdIdle /\ MwIdle
    /\ FpIdle /\ OcrIdle /\ WkIdle

\* what every call does first: config = self.load_config()
Loaded == load_config(cm_default, cm_file)

Returned(call, value) == [call |-> call, found |-> cm_file.state, value |-> value]

LoadConfig ==
    /\ cm_ops < MaxConfigOps
    /\ cm_default' = Loaded.default
    /\ cm_returned' = Returned("load_config", Loaded.config)
    /\ cm_ops' = cm_ops + 1
    /\ UNCHANGED <<cm_file, cl_pc, cl_raw_text, cleaned_once, cleaned_twice,
                   cl_page, rdVars, mwVars, fpVars, ocrVars, wkVars>>

GetOcrConfig ==
    /\ cm_ops < MaxConfigOps
    /\ \E service_name \in ServiceArgs :
           cm_returned' =
               Returned("get_ocr_config",
                        IF ServiceKey(service_name) = ""
                        THEN [k \in {} |-> Leaf("")]
                        ELSE Loaded.config.ocr.items[ServiceKey(service_name)].items)
    /\ cm_default' = Loaded.default
    /\ cm_ops' = cm_ops + 1
    /\ UNCHANGED <<cm_file, cl_pc, cl_raw_text, cleaned_once, cleaned_twice,
                   cl_page, rdVars, mwVars, fpVars, ocrVars, wkVars>>

\* update_ocr_config: default_config and the file after the call, and the
\* value returned.  The dict that is updated is the one default_config holds
\* where the shallow copy shares it.
update_ocr_config(default, file, service_name, service_config, written) ==
    IF ServiceKey(service_name) = ""
    THEN [default |-> load_config(default, file).default, file |-> file,
          ok |-> FALSE]
    ELSE [default |->
              IF Shared(default, file, "ocr")
              THEN UpdateService(load_config(default, file).default, "ocr",
                                 ServiceKey(service_name), service_config)
              ELSE load_config(default, file).default,
          file |-> save_config(file,
                       UpdateService(load_config(default, file).config, "ocr",
                                     ServiceKey(service_name), service_config),
                       written),
          ok |-> written]

update_output_config(default, file, output_config, written) ==
    [default |->
         IF Shared(default, file, "output")
         THEN UpdateSection(load_config(default, file).default, "output",
                            output_config)
         ELSE load_config(default, file).default,
     file |-> save_config(file,
                  UpdateSection(load_config(default, file).config, "output",
                                output_config),
                  written),
     ok |-> written]

update_qps_limit(default, file, service_name, qps_limit, written) ==
    IF ServiceKey(service_name) = ""
    THEN [default |-> load_config(default, file).default, file |-> file,
          ok |-> FALSE]
    ELSE [default |->
              IF Shared(default, file, "performance")
              THEN SetItem(load_config(default, file).default, "performance",
                           QpsKey(service_name), qps_limit)
              ELSE load_config(default, file).default,
          file |-> save_config(file,
                       SetItem(load_config(default, file).config, "performance",
                               QpsKey(service_name), qps_limit),
                       written),
          ok |-> written]

\* an update_* call has returned r
UpdateReturns(call, r) ==
    /\ cm_default' = r.default
    /\ cm_file' = r.file
    /\ cm_returned' = Returned(call, [ok |-> Leaf(r.ok)])
    /\ cm_ops' = cm_ops + 1
    /\ UNCHANGED <<cl_pc, cl_raw_text, cleaned_once, cleaned_twice,
                   cl_page, rdVars, mwVars, fpVars, ocrVars, wkVars>>

UpdateOcrConfig ==
    /\ cm_ops < MaxConfigOps
    /\ \E service_name \in ServiceArgs, service_config \in ServiceConfigArgs,
          written \in BOOLEAN :
           UpdateReturns("update_ocr_config",
               update_ocr_config(cm_default, cm_file, service_name,
                                 service_config, written))

UpdateOutputConfig ==
    /\ cm_ops < MaxConfigOps
    /\ \E output_config \in OutputConfigArgs, written \in BOOLEAN :
           UpdateReturns("update_output_config",
               update_output_config(cm_default, cm_file, output_config, written))

UpdateQpsLimit ==
    /\ cm_ops < MaxConfigOps
    /\ \E service_name \in ServiceArgs, qps_limit \in QpsArgs, written \in BOOLEAN :
           UpdateReturns("update_qps_limit",
               update_qps_limit(cm_default, cm_file, service_name, qps_limit,
                                written))

\* the file is deleted, or overwritten with something that is not JSON
DeleteConfigFile ==
    /\ cm_ops < MaxConfigOps
    /\ cm_file # AbsentFile
    /\ cm_file' = AbsentFile
    /\ cm_ops' = cm_ops + 1
    /\ UNCHANGED <<cm_default, cm_returned, cl_pc, cl_raw_text, cleaned_once,
                   cleaned_twice, cl_page, rdVars, mwVars, fpVars, ocrVars, wkVars>>

CorruptConfigFile ==
    /\ cm_ops < MaxConfigOps
    /\ cm_file.state = "json"
    /\ cm_file' = UnreadableFile
    /\ cm_ops' = cm_ops + 1
    /\ UNCHANGED <<cm_default, cm_returned, cl_pc, cl_raw_text, cleaned_once,
                   cleaned_twice, cl_page, rdVars, mwVars, fpVars, ocrVars, wkVars>>

ConfigNext ==
    \/ LoadConfig \/ GetOcrConfig
    \/ UpdateOcrConfig \/ UpdateOutputConfig \/ UpdateQpsLimit
    \/ DeleteConfigFile \/ CorruptConfigFile

SpecConfig == ConfigInit /\ [][ConfigNext]_vars

----------------------------------------------------------------------------
(* Claims about ConfigManager                                              *)

\* C29 (as claimed): default_config is never modified by load_config, get_*
\* and update_* calls: whenever the file is absent or unreadable,
\* load_config returns the built-in values, whatever was updated before
\* through the same ConfigManager.
C29_DefaultsNeverModified ==
    /\ cm_default = default_config
    /\ (cm_returned.call = "load_config" /\ cm_returned.found # "json") =>
           cm_returned.value = default_config

\* what holds of it: without a readable file load_config returns
\* default_config as it is at that moment, and default_config keeps its
\* sections and their keys
LoadReturnsCurrentDefaults ==
    /\ (cm_returned.call = "load_config" /\ cm_returned.found # "json") =>
           cm_returned.value = cm_default
    /\ DOMAIN cm_default = DOMAIN default_config
    /\ \A section \in DOMAIN default_config :
           /\ ~cm_default[section].leaf
           /\ DOMAIN default_config[section].items \subseteq
                  DOMAIN cm_default[section].items

----------------------------------------------------------------------------
(* main_window.py: MainWindow and the OcrWorker it starts                  *)

\* the files the dialogs offer
WindowFiles == {"f1", "f2"}

\* what is typed into a field, and text().strip() of it
FieldTexts == {"", "k", " "}
StripText(text) == IF text = " " THEN "" ELSE text

\* the key under which save_settings and load_settings keep the API key and
\* the secret key of a service
ApiKeyName(service_name) ==
    CASE service_name = "BaiduOCR"   -> "api_key"
      [] service_name = "TencentOCR" -> "secret_id"
      [] service_name = "AliyunOCR"  -> "access_key_id"

SecretKeyName(service_name) ==
    CASE service_name = "BaiduOCR"   -> "secret_key"
      [] service_name = "TencentOCR" -> "secret_key"
      [] service_name = "AliyunOCR"  -> "access_key_secret"

\* save_settings: update_ocr_config with the two fields, stripped, then
\* update_output_config with the output directory field, which stays empty;
\* default_config and the file afterwards
save_settings(default, file, service_name, api_key, secret_key, written) ==
    update_output_config(
        update_ocr_config(default, file, service_name,
            [k \in {ApiKeyName(service_name), SecretKeyName(service_name)} |->
                IF k = ApiKeyName(service_name) THEN Leaf(StripText(api_key))
                ELSE Leaf(StripText(secret_key))],
            written[1]).default,
        update_ocr_config(default, file, service_name,
            [k \in {ApiKeyName(service_name), SecretKeyName(service_name)} |->
                IF k = ApiKeyName(service_name) THEN Leaf(StripText(api_key))
                ELSE Leaf(StripText(secret_key))],
            written[1]).file,
        [directory |-> Leaf("")],
        written[2])

\* whether each of the two writes of save_settings reaches the file
Writes == {<<TRUE, TRUE>>, <<FALSE, FALSE>>}

\* on_ocr_service_changed: the secret key field is enabled for Baidu only
on_ocr_service_changed(service_name) == service_name = "BaiduOCR"

\* convert_btn.setEnabled in start_conversion, on_conversion_finished and
\* on_conversion_error
convert_btn_setEnabled_ErrorKeepsDisabled(handler) ==
    handler = "on_conversion_finished"

convert_btn_setEnabled(handler) ==
    CASE handler = "start_conversion"       -> FALSE
      [] handler = "on_conversion_finished" -> TRUE
      [] handler = "on_conversion_error"    -> TRUE

\* a config file that names a service and holds its two keys
SettingsFile(service_name) ==
    JsonFile([ocr |-> Dict([k \in {"service", ServiceKey(service_name)} |->
                 IF k = "service" THEN Leaf(service_name)
                 ELSE Dict([j \in {ApiKeyName(service_name),
                                   SecretKeyName(service_name)} |-> Leaf("k")])])])

WindowInit ==
    /\ mw_pc = "init"
    /\ WindowConstructed
    /\ cm_default = default_config
    /\ cm_file \in {AbsentFile} \cup {SettingsFile(n) : n \in ProviderNames}
    /\ cm_returned = NothingReturned
    /\ cm_ops = 0
    /\ MdIdle
    /\ FpIdle /\ OcrIdle /\ WkIdle

\* what the window actions leave alone outside the window
OutsideWindow == <<cm_returned, cm_ops, mdVars, fpVars, ocrVars, wkVars>>

\* load_settings, lines 657-679, the last step of MainWindow.__init__.
\* setCurrentText emits currentTextChanged when the service is not the
\* current one: on_ocr_service_changed and auto_save_ocr_settings run, the
\* latter with the fields still empty.  Then the fields are set from
\* get_ocr_config, and a field whose text changes starts the save timer.
LoadSettings ==
    /\ mw_pc = "init"
    /\ \E written \in Writes :
        LET service_name ==
                load_config(cm_default, cm_file).config.ocr.items.service.v
            changed == service_name # ocr_service_combo
            saved == IF changed
                     THEN save_settings(load_config(cm_default, cm_file).default,
                                        cm_file, service_name, "", "", written)
                     ELSE [default |-> load_config(cm_default, cm_file).default,
                           file |-> cm_file, ok |-> TRUE]
            service_config ==
                load_config(saved.default, saved.file)
                    .config.ocr.items[ServiceKey(service_name)].items
        IN  /\ ocr_service_combo' = service_name
            /\ secret_key_input_enabled' =
                   IF changed THEN on_ocr_service_changed(service_name)
                   ELSE secret_key_input_enabled
            /\ api_key_input' = service_config[ApiKeyName(service_name)].v
            /\ secret_key_input' = service_config[SecretKeyName(service_name)].v
            /\ save_pending' =
                   (\/ service_config[ApiKeyName(service_name)].v # api_key_input
                    \/ service_config[SecretKeyName(service_name)].v # secret_key_input)
            /\ cm_default' = load_config(saved.default, saved.file).default
            /\ cm_file' = saved.file
    /\ mw_pc' = "ready"
    /\ UNCHANGED <<selected_files, mw_edits, convert_btn_enabled, workers,
                   mw_queue, mw_saved, OutsideWindow>>

\* add_file_to_list for one path of the dialog of add_file
AddFile ==
    /\ mw_pc = "ready"
    /\ mw_edits < MaxEdits
    /\ \E file_path \in WindowFiles :
           /\ Len(selected_files) < MaxSelected
           /\ selected_files' =
                  IF \E k \in 1..Len(selected_files) : selected_files[k] = file_path
                  THEN selected_files
                  ELSE Append(selected_files, file_path)
    /\ mw_edits' = mw_edits + 1
    /\ UNCHANGED <<mw_pc, ocr_service_combo, api_key_input, secret_key_input,
                   secret_key_input_enabled, save_pending, convert_btn_enabled,
                   workers, mw_queue, mw_saved, cm_default, cm_file, OutsideWindow>>

\* remove_file with the row current_row selected
RemoveFile ==
    /\ mw_pc = "ready"
    /\ mw_edits < MaxEdits
    /\ \E current_row \in 1..Len(selected_files) :
           selected_files' =
               SubSeq(selected_files, 1, current_row - 1)
               \o SubSeq(selected_files, current_row + 1, Len(selected_files))
    /\ mw_edits' = mw_edits + 1
    /\ UNCHANGED <<mw_pc, ocr_service_combo, api_key_input, secret_key_input,
                   secret_key_input_enabled, save_pending, convert_btn_enabled,
                   workers, mw_queue, mw_saved, cm_default, cm_file, OutsideWindow>>

ClearFiles ==
    /\ mw_pc = "ready"
    /\ mw_edits < MaxEdits
    /\ selected_files' = <<>>
    /\ mw_edits' = mw_edits + 1
    /\ UNCHANGED <<mw_pc, ocr_service_combo, api_key_input, secret_key_input,
                   secret_key_input_enabled, save_pending, convert_btn_enabled,
                   workers, mw_queue, mw_saved, cm_default, cm_file, OutsideWindow>>

\* injective lists of files of the dialogs, up to MaxSelected long
FileLists ==
    {l \in StringsOver(WindowFiles, 0, MaxSelected) :
        \A a, b \in 1..Len(l) : a # b => l[a] # l[b]}

\* select_file: add_file_to_list, then auto_detect_series_files, which
\* clears the list and adds the files detect_series_files found
SelectFile ==
    /\ mw_pc = "ready"
    /\ mw_edits < MaxEdits
    /\ \E detected \in FileLists :
           /\ detected # <<>>
           /\ selected_files' = detected
    /\ mw_edits' = mw_edits + 1
    /\ UNCHANGED <<mw_pc, ocr_service_combo, api_key_input, secret_key_input,
                   secret_key_input_enabled, save_pending, convert_btn_enabled,
                   workers, mw_queue, mw_saved, cm_default, cm_file, OutsideWindow>>

\* another service is chosen in the combo box: on_ocr_service_changed, then
\* auto_save_ocr_settings
OnOcrServiceChanged ==
    /\ mw_pc = "ready"
    /\ mw_edits < MaxEdits
    /\ mw_edits' = mw_edits + 1
    /\ \E service_name \in ProviderNames \ {ocr_service_combo}, written \in Writes :
           /\ ocr_service_combo' = service_name
           /\ secret_key_input_enabled' = on_ocr_service_changed(service_name)
           /\ cm_default' = save_settings(cm_default, cm_file, service_name,
                                 api_key_input, secret_key_input, written).default
           /\ cm_file' = save_settings(cm_default, cm_file, service_name,
                              api_key_input, secret_key_input, written).file
    /\ UNCHANGED <<mw_pc, selected_files, api_key_input, secret_key_input,
                   save_pending, convert_btn_enabled, workers, mw_queue, mw_saved,
                   OutsideWindow>>

\* the API key field is edited: delayed_auto_save restarts the timer
EditApiKey ==
    /\ mw_pc = "ready"
    /\ mw_edits < MaxEdits
    /\ mw_edits' = mw_edits + 1
    /\ \E text \in FieldTexts \ {api_key_input} : api_key_input' = text
    /\ save_pending' = TRUE
    /\ UNCHANGED <<mw_pc, selected_files, ocr_service_combo,
                   secret_key_input, secret_key_input_enabled, convert_btn_enabled,
                   workers, mw_queue, mw_saved, cm_default, cm_file, OutsideWindow>>

\* the secret key field is edited, which an enabled field allows
EditSecretKey ==
    /\ mw_pc = "ready"
    /\ secret_key_input_enabled
    /\ mw_edits < MaxEdits
    /\ mw_edits' = mw_edits + 1
    /\ \E text \in FieldTexts \ {secret_key_input} : secret_key_input' = text
    /\ save_pending' = TRUE
    /\ UNCHANGED <<mw_pc, selected_files, ocr_service_combo,
                   api_key_input, secret_key_input_enabled, convert_btn_enabled,
                   workers, mw_queue, mw_saved, cm_default, cm_file, OutsideWindow>>

\* the timer of delayed_auto_save fires: auto_save_ocr_settings
AutoSaveOcrSettings ==
    /\ mw_pc = "ready"
    /\ save_pending
    /\ \E written \in Writes :
           /\ cm_default' = save_settings(cm_default, cm_file, ocr_service_combo,
                                 api_key_input, secret_key_input, written).default
           /\ cm_file' = save_settings(cm_default, cm_file, ocr_service_combo,
                              api_key_input, secret_key_input, written).file
    /\ save_pending' = FALSE
    /\ UNCHANGED <<mw_pc, selected_files, mw_edits, ocr_service_combo,
                   api_key_input, secret_key_input, secret_key_input_enabled,
                   convert_btn_enabled, workers, mw_queue, mw_saved, OutsideWindow>>

\* OcrWorker.__init__, lines 50-58: self.file_paths = file_paths keeps the
\* list object it is handed, which is self.selected_files of the window.
\* given, entered and edits_at_start note the list, the two fields and the
\* count of edits at that moment.
OcrWorker(file_paths, ocr_config) ==
    [status |-> "setup", ocr_config |-> ocr_config, i |-> 0, taken |-> <<>>,
     given |-> file_paths,
     entered |-> [api_key |-> api_key_input, secret_key |-> secret_key_input],
     edits_at_start |-> mw_edits, edits_at_end |-> 0]

\* self.file_paths of a worker: the list object of the window, as it is now
file_paths(worker) == selected_files

\* start_conversion, lines 460-506, on a click of the convert button, which
\* a disabled button does not emit.  Without a file or without an API key
\* the handler warns and returns.
StartConversion ==
    /\ mw_pc = "ready"
    /\ convert_btn_enabled
    /\ Len(workers) < MaxRuns
    /\ IF selected_files = <<>> \/ StripText(api_key_input) = ""
       THEN UNCHANGED <<convert_btn_enabled, workers, cm_default, cm_file>>
       ELSE /\ \E written \in Writes :
                   /\ cm_default' =
                          save_settings(cm_default, cm_file, ocr_service_combo,
                              api_key_input, secret_key_input, written).default
                   /\ cm_file' =
                          save_settings(cm_default, cm_file, ocr_service_combo,
                              api_key_input, secret_key_input, written).file
            /\ convert_btn_enabled' = convert_btn_setEnabled("start_conversion")
            /\ workers' = Append(workers,
                   OcrWorker(selected_files,
                       [service |-> ocr_service_combo,
                        api_key |-> StripText(api_key_input),
                        secret_key |-> IF secret_key_input_enabled
                                       THEN StripText(secret_key_input) ELSE ""]))
    /\ UNCHANGED <<mw_pc, selected_files, mw_edits, ocr_service_combo,
                   api_key_input, secret_key_input, secret_key_input_enabled,
                   save_pending, mw_queue, mw_saved, OutsideWindow>>

\* the terminal signal of the run of worker w, queued for the main thread
Terminal(sig, w) == [sig |-> sig, worker |-> w]

\* OcrWorker.run, lines 63-96: the config is converted and the provider set
\* up; a failed setup raises and the handler emits error_occurred
RunSetup ==
    /\ \E w \in 1..Len(workers) :
           /\ workers[w].status = "setup"
           /\ IF setup_provider(NoProvider, workers[w].ocr_config.service,
                                ConvertConfig(workers[w].ocr_config),
                                get_qps_limit(workers[w].ocr_config.service)).result
              THEN /\ workers' = [workers EXCEPT ![w].status = "pages"]
                   /\ UNCHANGED mw_queue
              ELSE /\ workers' = [workers EXCEPT ![w].status = "setup_failed",
                                                 ![w].edits_at_end = mw_edits]
                   /\ mw_queue' = Append(mw_queue, Terminal("error_occurred", w))
    /\ UNCHANGED <<mw_pc, selected_files, mw_edits, ocr_service_combo,
                   api_key_input, secret_key_input, secret_key_input_enabled,
                   save_pending, convert_btn_enabled, mw_saved, cm_default,
                   cm_file, OutsideWindow>>

\* lines 106-141: the loop takes the next element of self.file_paths, which
\* is there when the index is below the length the list has now; the page
\* is recognized, or it fails and error_occurred is emitted
RunPage ==
    /\ \E w \in 1..Len(workers), recognized \in BOOLEAN :
           /\ workers[w].status = "pages"
           /\ workers[w].i < Len(file_paths(workers[w]))
           /\ IF recognized
              THEN /\ workers' =
                          [workers EXCEPT
                              ![w].i = @ + 1,
                              ![w].taken =
                                  Append(@, file_paths(workers[w])[workers[w].i + 1])]
                   /\ UNCHANGED mw_queue
              ELSE /\ workers' =
                          [workers EXCEPT
                              ![w].status = "failed",
                              ![w].edits_at_end = mw_edits,
                              ![w].taken =
                                  Append(@, file_paths(workers[w])[workers[w].i + 1])]
                   /\ mw_queue' = Append(mw_queue, Terminal("error_occurred", w))
    /\ UNCHANGED <<mw_pc, selected_files, mw_edits, ocr_service_combo,
                   api_key_input, secret_key_input, secret_key_input_enabled,
                   save_pending, convert_btn_enabled, mw_saved, cm_default,
                   cm_file, OutsideWindow>>

\* lines 143-162: the list is exhausted, the document is generated and
\* formatted and finished is emitted
RunFinish ==
    /\ \E w \in 1..Len(workers) :
           /\ workers[w].status = "pages"
           /\ workers[w].i >= Len(file_paths(workers[w]))
           /\ workers' = [workers EXCEPT ![w].status = "finished",
                                         ![w].edits_at_end = mw_edits]
           /\ mw_queue' = Append(mw_queue, Terminal("finished", w))
    /\ UNCHANGED <<mw_pc, selected_files, mw_edits, ocr_service_combo,
                   api_key_input, secret_key_input, secret_key_input_enabled,
                   save_pending, convert_btn_enabled, mw_saved, cm_default,
                   cm_file, OutsideWindow>>

\* generate_output_path: the directory and the base name come from
\* self.selected_files[0] as the list is now; on an empty list the
\* IndexError is caught by on_conversion_finished
generate_output_path(files) ==
    IF files = <<>> THEN "IndexError" ELSE files[1]

\* on_conversion_finished, lines 516-537
OnConversionFinished ==
    /\ mw_queue # <<>>
    /\ mw_queue[1].sig = "finished"
    /\ convert_btn_enabled' = convert_btn_setEnabled("on_conversion_finished")
    /\ mw_saved' = [run |-> mw_queue[1].worker,
                    from |-> generate_output_path(selected_files)]
    /\ mw_queue' = Tail(mw_queue)
    /\ UNCHANGED <<mw_pc, selected_files, mw_edits, ocr_service_combo,
                   api_key_input, secret_key_input, secret_key_input_enabled,
                   save_pending, workers, cm_default, cm_file, OutsideWindow>>

\* on_conversion_error, lines 539-554
OnConversionError ==
    /\ mw_queue # <<>>
    /\ mw_queue[1].sig = "error_occurred"
    /\ convert_btn_enabled' = convert_btn_setEnabled("on_conversion_error")
    /\ mw_queue' = Tail(mw_queue)
    /\ UNCHANGED <<mw_pc, selected_files, mw_edits, ocr_service_combo,
                   api_key_input, secret_key_input, secret_key_input_enabled,
                   save_pending, workers, mw_saved, cm_default, cm_file,
                   OutsideWindow>>

\* the steps of a run and the handlers of its terminal signal
RunNext ==
    \/ RunSetup \/ RunPage \/ RunFinish
    \/ OnConversionFinished \/ OnConversionError

\* the window with its file list edited while conversions run, the
\* settings as load_settings left them
WindowNext ==
    \/ LoadSettings
    \/ AddFile \/ RemoveFile \/ ClearFiles \/ SelectFile
    \/ StartConversion
    \/ RunNext

SpecWindow == WindowInit /\ [][WindowNext]_vars

\* the window with its settings edited, and conversions of a detected
\* series up to the recognition of their pages or the failure of the run
SettingsNext ==
    \/ LoadSettings
    \/ OnOcrServiceChanged \/ EditApiKey \/ EditSecretKey \/ AutoSaveOcrSettings
    \/ SelectFile
    \/ StartConversion
    \/ RunSetup \/ RunPage \/ OnConversionError

SpecSettings == WindowInit /\ [][SettingsNext]_vars

----------------------------------------------------------------------------
(* Claims about the main window                                            *)

\* the run of the worker is under way: it has emitted no terminal signal
Running(worker) == worker.status \in {"setup", "pages"}

\* the worker was started with both fields holding a key
BothKeysEntered(worker) ==
    /\ StripText(worker.entered.api_key) # ""
    /\ StripText(worker.entered.secret_key) # ""

\* the worker got the two keys that were entered, and its run did not end
\* at the setup of the provider
KeysReachWorker(worker) ==
    /\ worker.ocr_config.api_key = StripText(worker.entered.api_key)
    /\ worker.ocr_config.secret_key = StripText(worker.entered.secret_key)
    /\ worker.status # "setup_failed"

\* C26 (as claimed): for each of the three services of the combo box, a
\* conversion started with a non-empty API key and a non-empty secret key
\* hands both to the worker, whose setup_provider succeeds, so that the
\* run reaches the recognition of the first page.
C26_KeysReachWorker ==
    \A w \in 1..Len(workers) :
        BothKeysEntered(workers[w]) => KeysReachWorker(workers[w])

\* what holds of it: the keys reach the worker when the service is Baidu;
\* for the other two services the secret key field is disabled and the
\* worker gets an empty secret key
KeysReachWorkerForBaidu ==
    /\ \A w \in 1..Len(workers) :
           IF workers[w].ocr_config.service = "BaiduOCR"
           THEN BothKeysEntered(workers[w]) => KeysReachWorker(workers[w])
           ELSE /\ workers[w].ocr_config.secret_key = ""
                /\ workers[w].status \in {"setup", "setup_failed"}
    /\ mw_pc = "ready" =>
           (secret_key_input_enabled <=> ocr_service_combo = "BaiduOCR")

\* a conversion with Baidu and both keys has recognized a page
BaiduRunReachesFirstPage ==
    \E w \in 1..Len(workers) :
        /\ workers[w].ocr_config.service = "BaiduOCR"
        /\ BothKeysEntered(workers[w])
        /\ workers[w].i > 0

IsPrefix(a, b) == Len(a) <= Len(b) /\ SubSeq(b, 1, Len(a)) = a

\* C27 (as claimed): the files a worker processes, and their order, are the
\* file list as it was when the conversion started, whatever is added,
\* removed, cleared or selected in the window while the worker runs, and
\* the output path is derived from the first file of that list.
C27_WorkerListIsSnapshot ==
    /\ \A w \in 1..Len(workers) :
           /\ IsPrefix(workers[w].taken, workers[w].given)
           /\ workers[w].status = "finished" => workers[w].taken = workers[w].given
    /\ mw_saved.run # 0 => mw_saved.from = workers[mw_saved.run].given[1]

\* what holds of it: a run during which the list was not edited processes
\* the list it was given, and the output path comes from its first file
\* when the list was not edited up to on_conversion_finished
SnapshotWhileListUntouched ==
    /\ \A w \in 1..Len(workers) :
           (workers[w].status = "finished"
               /\ workers[w].edits_at_end = workers[w].edits_at_start) =>
                  workers[w].taken = workers[w].given
    /\ (mw_saved.run # 0 /\ mw_edits = workers[mw_saved.run].edits_at_start) =>
           mw_saved.from = workers[mw_saved.run].given[1]

\* C28: at most one OcrWorker is running at any time; the convert button is
\* disabled from the start of a worker until its finished or
\* error_occurred signal has been handled, and it is enabled again once
\* the run has ended, in success or failure, and the signal is handled.
C28_OneWorkerAtATime ==
    /\ Cardinality({w \in 1..Len(workers) : Running(workers[w])}) <= 1
    /\ ((\E w \in 1..Len(workers) : Running(workers[w])) \/ mw_queue # <<>>)
           => ~convert_btn_enabled
    /\ ((\A w \in 1..Len(workers) : ~Running(workers[w])) /\ mw_queue = <<>>)
           => convert_btn_enabled

\* a second worker runs after the first failed and its signal was handled
C28_Witness ==
    /\ Len(workers) = 2
    /\ workers[1].status \in {"failed", "setup_failed"}
    /\ Running(workers[2])
    /\ ~convert_btn_enabled

\* a second worker runs after the first finished
SecondRunAfterFinished ==
    /\ Len(workers) = 2
    /\ workers[1].status = "finished"
    /\ workers[2].status = "pages"
    /\ workers[2].i > 0

====
